---- MODULE Spec2Model ----
(***************************************************************************)
(* Model of the carbon-sequestration prediction service (class MLService)  *)
(* and of the callers that use it.                                         *)
(*                                                                         *)
(* Numbers.  The service computes on JavaScript numbers.  The model keeps  *)
(* two exact decimal representations:                                      *)
(*   - Dec: a record [m, e] standing for m / 10^e, used for the arguments  *)
(*     callers pass and for the confidence score;                          *)
(*   - Num: a fixed-point value <<hi, l1, l2, l3>> standing for            *)
(*     hi + l1/10^6 + l2/10^12 + l3/10^18 with 0 <= l1,l2,l3 < 10^6 (hi    *)
(*     carries the sign), wide enough to hold the 17-digit model           *)
(*     coefficients and every product the service forms from them.         *)
(* Arithmetic is exact decimal arithmetic; binary rounding in the last     *)
(* place of a double (around 10^-16 relative) is not modelled.             *)
(***************************************************************************)
EXTENDS Integers, Sequences, FiniteSets, TLC

VARIABLES
    instance,   \* MLService.instance: NoInstance or the constructed service
    now,        \* the wall clock read by new Date()
    op,         \* name of the last completed service call
    args,       \* its arguments
    outcome,    \* "returned" or "threw"
    result,     \* the value it returned (NoValue when it threw)
    thrown,     \* the Error it threw (NoValue when it returned)
    running,    \* per concurrent caller: what it is doing with the service
    store,      \* the carbon_predictions collection, in insertion order
    request,    \* the HTTP request last handled
    response,   \* the response it was answered with
    coreCalls,  \* the service methods its handler called, in order
    database,   \* what the store answers: connected, disconnected or failing
    otps,       \* the otps collection, in insertion order
    farmers,    \* the farmers collection, in insertion order
    invocations, \* per invocation of the auth function: its request and position
    issued,     \* history: per email, the OTP document written last
    spent       \* history: per email, the code verified since it was written

callVars == <<op, args, outcome, result, thrown>>
apiVars == <<store, request, response, coreCalls, database>>

authVars == <<otps, farmers, invocations, issued, spent>>

vars == <<instance, now, op, args, outcome, result, thrown, running,
         store, request, response, coreCalls, database,
         otps, farmers, invocations, issued, spent>>

\* the auth function has not been invoked
NoAuth ==
    /\ otps = <<>>
    /\ farmers = <<>>
    /\ invocations = <<>>
    /\ issued = <<>>
    /\ spent = <<>>

-----------------------------------------------------------------------------
(* Bounds of the model *)

\* longest array handed to batchPredict
MaxBatch == 2

\* last value of the wall clock
MaxClock == 1

\* number of concurrent callers of the shared service instance
MaxCallers == 2

\* most documents the carbon_predictions collection holds
MaxStore == 2

\* most documents of a collection that a history is read from
MaxHistory == 52

-----------------------------------------------------------------------------
(* Exact decimal arithmetic *)

Base == 1000 * 1000

Dec(m, e) == [m |-> m, e |-> e]

RECURSIVE Pow10(_)
Pow10(e) == IF e = 0 THEN 1 ELSE 10 * Pow10(e - 1)

\* a value that is a number; undefined converts to NaN, which is not one
IsNumber(x) == "m" \in DOMAIN x

\* x < y, x <= y, x = y on Dec values; as in the language of the source, a
\* comparison with a side that is not a number is false
DecLt(x, y) == IsNumber(x) /\ IsNumber(y) /\ x.m * Pow10(y.e) < y.m * Pow10(x.e)
DecLe(x, y) == IsNumber(x) /\ IsNumber(y) /\ x.m * Pow10(y.e) <= y.m * Pow10(x.e)
DecEq(x, y) == x.m * Pow10(y.e) = y.m * Pow10(x.e)

\* x * y on Dec values
DecMul(x, y) == Dec(x.m * y.m, x.e + y.e)

\* Math.max(x, y)
DecMax(x, y) == IF DecLt(x, y) THEN y ELSE x

\* carry propagation: the Num with the value h + a/B + b/B^2 + c/B^3
NumNorm(h, a, b, c) ==
    LET b1 == b + (c \div Base)
        a1 == a + (b1 \div Base)
    IN  <<h + (a1 \div Base), a1 % Base, b1 % Base, c % Base>>

NumAdd(x, y) == NumNorm(x[1] + y[1], x[2] + y[2], x[3] + y[3], x[4] + y[4])

\* x * k for an integer k
NumMulInt(x, k) == NumNorm(x[1] * k, x[2] * k, x[3] * k, x[4] * k)

\* x / d for an integer d > 0 (long division, exact to 10^-18)
NumDivInt(x, d) ==
    LET t2 == (x[1] % d) * Base + x[2]
        t3 == (t2 % d) * Base + x[3]
        t4 == (t3 % d) * Base + x[4]
    IN  <<x[1] \div d, t2 \div d, t3 \div d, t4 \div d>>

\* x * y for a Num x and a Dec y
NumTimes(x, y) == NumDivInt(NumMulInt(x, y.m), Pow10(y.e))

\* the Num with the value of the Dec y
NumOf(y) == NumTimes(<<1, 0, 0, 0>>, y)

NumNeg(x) == NumMulInt(x, -1)

NumLt(x, y) ==
    \E i \in 1..4 : x[i] < y[i] /\ \A j \in 1..(i - 1) : x[j] = y[j]

NumLe(x, y) == x = y \/ NumLt(x, y)

\* Number.prototype.toFixed(2) as a count of hundredths (round half up)
ToFixed2(x) ==
    LET h == NumMulInt(x, 100)
    IN  h[1] + (IF h[2] >= Base \div 2 THEN 1 ELSE 0)

-----------------------------------------------------------------------------
(* Values *)

NoInstance == [instance |-> FALSE]
NoValue == [none |-> TRUE]

\* an argument the caller left out
Undefined == [undefined |-> TRUE]

\* a call that completed normally with value v / that threw the Error e
Returned(v) == [status |-> "returned", value |-> v, error |-> NoValue]
Threw(e) == [status |-> "threw", value |-> NoValue, error |-> e]

\* new Error(`${prefix}${parts.join(", ")}`)
Error(prefix, parts) == [name |-> "Error", prefix |-> prefix, parts |-> parts]

-----------------------------------------------------------------------------
(* class MLService *)

\* variant: a bias of about -10.12
ModelCoefficients_LargeBias ==
    [ bias               |-> NumNeg(<<10, 124207, 305897, 413270>>),
      ndvi               |-> <<24, 868224, 119584, 320000>>,
      canopyCoverPercent |-> <<0, 150409, 891987, 46350>>,
      soilCarbonPercent  |-> <<6, 52698, 281702, 26500>> ]

ModelCoefficients ==
    [ bias               |-> NumNeg(<<0, 124207, 305897, 413270>>),
      ndvi               |-> <<24, 868224, 119584, 320000>>,
      canopyCoverPercent |-> <<0, 150409, 891987, 46350>>,
      soilCarbonPercent  |-> <<6, 52698, 281702, 26500>> ]

ModelVersion == "1.0"

\* private constructor()
MLServiceNew ==
    [modelCoefficients |-> ModelCoefficients, modelVersion |-> ModelVersion]

\* variant: predictCarbonSequestration recalibrates the bias in place
thisAfter_Recalibrates(name, self) ==
    IF name = "predictCarbonSequestration"
    THEN [self EXCEPT !.modelCoefficients.bias = NumAdd(@, <<1, 0, 0, 0>>)]
    ELSE self

\* the service object after its method `name` has run: no method assigns
\* to a field of this
thisAfter(name, self) == self

\* static getInstance(): the instance afterwards
getInstance(inst) == IF inst = NoInstance THEN MLServiceNew ELSE inst

\* variant: the estimate clamped to [0, 50]
calculateCarbonSequestration_Clamped(self, input) ==
    LET c == self.modelCoefficients
        v == NumAdd(NumAdd(NumAdd(c.bias,
                                  NumTimes(c.ndvi, input.ndvi)),
                           NumTimes(c.canopyCoverPercent, input.canopyCoverPercent)),
                    NumTimes(c.soilCarbonPercent, input.soilCarbonPercent))
    IN  IF NumLt(<<50, 0, 0, 0>>, v) THEN <<50, 0, 0, 0>>
        ELSE IF NumLt(v, <<0, 0, 0, 0>>) THEN <<0, 0, 0, 0>> ELSE v

\* variant: the bias term left out
calculateCarbonSequestration_NoBias(self, input) ==
    LET c == self.modelCoefficients
    IN  NumAdd(NumAdd(NumTimes(c.ndvi, input.ndvi),
                      NumTimes(c.canopyCoverPercent, input.canopyCoverPercent)),
               NumTimes(c.soilCarbonPercent, input.soilCarbonPercent))

\* calculateCarbonSequestration(input)
calculateCarbonSequestration(self, input) ==
    LET c == self.modelCoefficients
    IN  NumAdd(NumAdd(NumAdd(c.bias,
                             NumTimes(c.ndvi, input.ndvi)),
                      NumTimes(c.canopyCoverPercent, input.canopyCoverPercent)),
               NumTimes(c.soilCarbonPercent, input.soilCarbonPercent))

NdviMessage == "NDVI must be between 0.1 and 0.9"
CanopyMessage == "Canopy cover percentage must be between 0 and 100"
SoilMessage == "Soil carbon percentage must be between 0.5 and 8"

\* variant: the range bounds taken as exclusive
validationErrors_Exclusive(input) ==
    LET e1 == IF DecLe(input.ndvi, Dec(1, 1)) \/ DecLe(Dec(9, 1), input.ndvi)
              THEN <<NdviMessage>> ELSE <<>>
        e2 == IF DecLe(input.canopyCoverPercent, Dec(0, 0))
                 \/ DecLe(Dec(100, 0), input.canopyCoverPercent)
              THEN Append(e1, CanopyMessage) ELSE e1
        e3 == IF DecLe(input.soilCarbonPercent, Dec(5, 1))
                 \/ DecLe(Dec(8, 0), input.soilCarbonPercent)
              THEN Append(e2, SoilMessage) ELSE e2
    IN  e3

\* variant: the checks chained with else, so that only the first violation
\* is recorded
validationErrors_FirstOnly(input) ==
    IF DecLt(input.ndvi, Dec(1, 1)) \/ DecLt(Dec(9, 1), input.ndvi)
    THEN <<NdviMessage>>
    ELSE IF DecLt(input.canopyCoverPercent, Dec(0, 0))
            \/ DecLt(Dec(100, 0), input.canopyCoverPercent)
    THEN <<CanopyMessage>>
    ELSE IF DecLt(input.soilCarbonPercent, Dec(5, 1))
            \/ DecLt(Dec(8, 0), input.soilCarbonPercent)
    THEN <<SoilMessage>>
    ELSE <<>>

\* validateInput(input): the errors array it has built when it decides
validationErrors(input) ==
    LET e1 == IF DecLt(input.ndvi, Dec(1, 1)) \/ DecLt(Dec(9, 1), input.ndvi)
              THEN <<NdviMessage>> ELSE <<>>
        e2 == IF DecLt(input.canopyCoverPercent, Dec(0, 0))
                 \/ DecLt(Dec(100, 0), input.canopyCoverPercent)
              THEN Append(e1, CanopyMessage) ELSE e1
        e3 == IF DecLt(input.soilCarbonPercent, Dec(5, 1))
                 \/ DecLt(Dec(8, 0), input.soilCarbonPercent)
              THEN Append(e2, SoilMessage) ELSE e2
    IN  e3

\* validateInput(input): returns (void) or throws
validateInput(input) ==
    LET errors == validationErrors(input)
    IN  IF Len(errors) > 0
        THEN Threw(Error("Invalid input parameters: ", errors))
        ELSE Returned(NoValue)

\* variant: the near-boundary thresholds taken as inclusive
calculateConfidence_Inclusive(input) ==
    LET c0 == Dec(1, 0)
        c1 == IF DecLe(input.ndvi, Dec(2, 1)) \/ DecLe(Dec(8, 1), input.ndvi)
              THEN DecMul(c0, Dec(9, 1)) ELSE c0
        c2 == IF DecLe(input.canopyCoverPercent, Dec(10, 0))
                 \/ DecLe(Dec(90, 0), input.canopyCoverPercent)
              THEN DecMul(c1, Dec(9, 1)) ELSE c1
        c3 == IF DecLe(input.soilCarbonPercent, Dec(1, 0))
                 \/ DecLe(Dec(7, 0), input.soilCarbonPercent)
              THEN DecMul(c2, Dec(9, 1)) ELSE c2
    IN  DecMax(Dec(7, 1), c3)

\* variant: the conditions chained with else, so that the confidence is
\* reduced at most once
calculateConfidence_ElseIf(input) ==
    LET near == \/ DecLt(input.ndvi, Dec(2, 1)) \/ DecLt(Dec(8, 1), input.ndvi)
                \/ DecLt(input.canopyCoverPercent, Dec(10, 0))
                \/ DecLt(Dec(90, 0), input.canopyCoverPercent)
                \/ DecLt(input.soilCarbonPercent, Dec(1, 0))
                \/ DecLt(Dec(7, 0), input.soilCarbonPercent)
    IN  DecMax(Dec(7, 1), IF near THEN DecMul(Dec(1, 0), Dec(9, 1)) ELSE Dec(1, 0))

\* variant: each near-boundary feature costs 0.8
calculateConfidence_Steeper(input) ==
    LET c0 == Dec(1, 0)
        c1 == IF DecLt(input.ndvi, Dec(2, 1)) \/ DecLt(Dec(8, 1), input.ndvi)
              THEN DecMul(c0, Dec(8, 1)) ELSE c0
        c2 == IF DecLt(input.canopyCoverPercent, Dec(10, 0))
                 \/ DecLt(Dec(90, 0), input.canopyCoverPercent)
              THEN DecMul(c1, Dec(8, 1)) ELSE c1
        c3 == IF DecLt(input.soilCarbonPercent, Dec(1, 0))
                 \/ DecLt(Dec(7, 0), input.soilCarbonPercent)
              THEN DecMul(c2, Dec(8, 1)) ELSE c2
    IN  DecMax(Dec(7, 1), c3)

\* calculateConfidence(input)
calculateConfidence(input) ==
    LET c0 == Dec(1, 0)
        c1 == IF DecLt(input.ndvi, Dec(2, 1)) \/ DecLt(Dec(8, 1), input.ndvi)
              THEN DecMul(c0, Dec(9, 1)) ELSE c0
        c2 == IF DecLt(input.canopyCoverPercent, Dec(10, 0))
                 \/ DecLt(Dec(90, 0), input.canopyCoverPercent)
              THEN DecMul(c1, Dec(9, 1)) ELSE c1
        c3 == IF DecLt(input.soilCarbonPercent, Dec(1, 0))
                 \/ DecLt(Dec(7, 0), input.soilCarbonPercent)
              THEN DecMul(c2, Dec(9, 1)) ELSE c2
    IN  DecMax(Dec(7, 1), c3)

\* predictCarbonSequestration(input), called when the clock reads t
predictCarbonSequestration(self, input, t) ==
    LET v == validateInput(input)
    IN  IF v.status = "threw" THEN v
        ELSE Returned(
               [ carbonSequestration |-> calculateCarbonSequestration(self, input),
                 confidence          |-> calculateConfidence(input),
                 modelUsed           |-> "Linear Regression v" \o self.modelVersion,
                 timestamp           |-> t,
                 inputData           |-> input ])

\* inputs.map(input => this.predictCarbonSequestration(input)): the callback
\* runs on the elements in index order; the first throw leaves map.  (The
\* array is walked by halves, the first half before the second, which keeps
\* the evaluation shallow on long arrays.)
RECURSIVE batchMap(_, _, _, _)
batchMap(self, inputs, t, acc) ==
    IF inputs = <<>> THEN Returned(acc)
    ELSE IF Len(inputs) = 1
    THEN LET r == predictCarbonSequestration(self, Head(inputs), t)
         IN  IF r.status = "threw" THEN r ELSE Returned(Append(acc, r.value))
    ELSE LET half == Len(inputs) \div 2
             first == batchMap(self, SubSeq(inputs, 1, half), t, acc)
         IN  IF first.status = "threw" THEN first
             ELSE batchMap(self, SubSeq(inputs, half + 1, Len(inputs)), t,
                           first.value)

\* variant: the results collected in reverse order
RECURSIVE batchMapReversed(_, _, _, _)
batchMapReversed(self, inputs, t, acc) ==
    IF inputs = <<>> THEN Returned(acc)
    ELSE LET r == predictCarbonSequestration(self, Head(inputs), t)
         IN  IF r.status = "threw" THEN r
             ELSE batchMapReversed(self, Tail(inputs), t, <<r.value>> \o acc)

batchPredict_Reversed(self, inputs, t) == batchMapReversed(self, inputs, t, <<>>)

\* variant: the elements are visited from the last to the first
RECURSIVE batchMapFromEnd(_, _, _, _)
batchMapFromEnd(self, inputs, t, acc) ==
    IF inputs = <<>> THEN Returned(acc)
    ELSE LET r == predictCarbonSequestration(self, inputs[Len(inputs)], t)
         IN  IF r.status = "threw" THEN r
             ELSE batchMapFromEnd(self, SubSeq(inputs, 1, Len(inputs) - 1), t,
                                  <<r.value>> \o acc)

batchPredict_FromEnd(self, inputs, t) == batchMapFromEnd(self, inputs, t, <<>>)

\* batchPredict(inputs)
batchPredict(self, inputs, t) == batchMap(self, inputs, t, <<>>)

\* a parameter with a default value
Default(v, d) == IF v = Undefined THEN d ELSE v

\* variant: the duration left out of totalCredits
estimateCarbonCredits_NoDuration(carbonSequestration, areaHectares, duration) ==
    LET projectDurationYears == Default(duration, Dec(1, 0))
    IN  IF DecLe(areaHectares, Dec(0, 0))
        THEN Threw(Error("Area must be greater than 0", <<>>))
        ELSE IF DecLe(projectDurationYears, Dec(0, 0))
        THEN Threw(Error("Project duration must be greater than 0", <<>>))
        ELSE LET annualCredits == NumTimes(carbonSequestration, areaHectares)
             IN  Returned([ totalCredits       |-> annualCredits,
                            annualCredits      |-> annualCredits,
                            totalSequestration |->
                                NumTimes(annualCredits, projectDurationYears) ])

\* variant: the duration 0 let through
estimateCarbonCredits_ZeroDuration(carbonSequestration, areaHectares, duration) ==
    LET projectDurationYears == Default(duration, Dec(1, 0))
    IN  IF DecLe(areaHectares, Dec(0, 0))
        THEN Threw(Error("Area must be greater than 0", <<>>))
        ELSE IF DecLt(projectDurationYears, Dec(0, 0))
        THEN Threw(Error("Project duration must be greater than 0", <<>>))
        ELSE LET annualCredits == NumTimes(carbonSequestration, areaHectares)
                 totalCredits == NumTimes(annualCredits, projectDurationYears)
             IN  Returned([ totalCredits       |-> totalCredits,
                            annualCredits      |-> annualCredits,
                            totalSequestration |-> totalCredits ])

\* estimateCarbonCredits(carbonSequestration, areaHectares, projectDurationYears = 1)
estimateCarbonCredits(carbonSequestration, areaHectares, duration) ==
    LET projectDurationYears == Default(duration, Dec(1, 0))
    IN  IF DecLe(areaHectares, Dec(0, 0))
        THEN Threw(Error("Area must be greater than 0", <<>>))
        ELSE IF DecLe(projectDurationYears, Dec(0, 0))
        THEN Threw(Error("Project duration must be greater than 0", <<>>))
        ELSE LET totalSequestration ==
                     NumTimes(NumTimes(carbonSequestration, areaHectares),
                              projectDurationYears)
                 annualCredits == NumTimes(carbonSequestration, areaHectares)
                 totalCredits == NumTimes(annualCredits, projectDurationYears)
             IN  Returned([ totalCredits       |-> totalCredits,
                            annualCredits      |-> annualCredits,
                            totalSequestration |-> totalSequestration ])

\* variant: 0 credits rejected
calculateCreditValue_RejectsZero(credits, price) ==
    LET pricePerCredit == Default(price, Dec(15, 0))
    IN  IF NumLe(credits, NumOf(Dec(0, 0)))
        THEN Threw(Error("Credits cannot be negative", <<>>))
        ELSE IF DecLe(pricePerCredit, Dec(0, 0))
        THEN Threw(Error("Price per credit must be greater than 0", <<>>))
        ELSE Returned([ valueUSD       |-> NumTimes(credits, pricePerCredit),
                        credits        |-> credits,
                        pricePerCredit |-> pricePerCredit ])

\* calculateCreditValue(credits, pricePerCredit = 15)
calculateCreditValue(credits, price) ==
    LET pricePerCredit == Default(price, Dec(15, 0))
    IN  IF NumLt(credits, NumOf(Dec(0, 0)))
        THEN Threw(Error("Credits cannot be negative", <<>>))
        ELSE IF DecLe(pricePerCredit, Dec(0, 0))
        THEN Threw(Error("Price per credit must be greater than 0", <<>>))
        ELSE Returned([ valueUSD       |-> NumTimes(credits, pricePerCredit),
                        credits        |-> credits,
                        pricePerCredit |-> pricePerCredit ])

\* variant: the features listed in the order of the input fields
getModelInfo_Unranked(self) ==
    Returned(
      [ version      |-> self.modelVersion,
        coefficients |-> self.modelCoefficients,
        performance  |-> [ r2   |-> <<0, 961856, 34080, 127300>>,
                           rmse |-> <<2, 920924, 425997, 714700>>,
                           mae  |-> <<2, 291092, 948917, 75500>> ],
        featureImportance |->
          << [feature |-> "NDVI", importance |-> <<24, 868224, 119584, 320000>>],
             [feature |-> "CanopyCoverPercent",
              importance |-> <<0, 150409, 891987, 46350>>],
             [feature |-> "SoilCarbonPercent",
              importance |-> <<6, 52698, 281702, 26500>>] >> ])

\* getModelInfo()
getModelInfo(self) ==
    Returned(
      [ version      |-> self.modelVersion,
        coefficients |-> self.modelCoefficients,
        performance  |-> [ r2   |-> <<0, 961856, 34080, 127300>>,
                           rmse |-> <<2, 920924, 425997, 714700>>,
                           mae  |-> <<2, 291092, 948917, 75500>> ],
        featureImportance |->
          << [feature |-> "NDVI", importance |-> <<24, 868224, 119584, 320000>>],
             [feature |-> "SoilCarbonPercent",
              importance |-> <<6, 52698, 281702, 26500>>],
             [feature |-> "CanopyCoverPercent",
              importance |-> <<0, 150409, 891987, 46350>>] >> ])

-----------------------------------------------------------------------------
(* The values callers pass *)

\* each range is sampled below its lower bound, on it, on the two
\* near-boundary thresholds, in the centre, on its upper bound and above it
NdviValues ==
    { Dec(5, 2), Dec(1, 1), Dec(2, 1), Dec(7, 1), Dec(8, 1), Dec(9, 1), Dec(15, 1) }

CanopyValues ==
    { Dec(-1, 0), Dec(0, 0), Dec(10, 0), Dec(75, 0), Dec(90, 0), Dec(100, 0),
      Dec(101, 0) }

SoilValues ==
    { Dec(4, 1), Dec(5, 1), Dec(1, 0), Dec(35, 1), Dec(7, 0), Dec(8, 0), Dec(81, 1) }

Input(n, c, s) == [ndvi |-> n, canopyCoverPercent |-> c, soilCarbonPercent |-> s]

Inputs == { Input(n, c, s) : n \in NdviValues, c \in CanopyValues, s \in SoilValues }

\* the elements batches are built from: three in-range inputs, one of them
\* near a boundary, and two out-of-range ones
BatchElements ==
    { Input(Dec(6, 1), Dec(60, 0), Dec(28, 1)),
      Input(Dec(8, 1), Dec(85, 0), Dec(42, 1)),
      Input(Dec(15, 2), Dec(95, 0), Dec(19, 1)),
      Input(Dec(15, 1), Dec(75, 0), Dec(35, 1)),
      Input(Dec(5, 1), Dec(101, 0), Dec(4, 1)) }

RECURSIVE SeqsUpTo(_, _)
SeqsUpTo(S, n) ==
    IF n = 0 THEN { <<>> }
    ELSE LET shorter == SeqsUpTo(S, n - 1)
         IN  shorter \cup { Append(q, x) : q \in shorter, x \in S }

Batches == SeqsUpTo(BatchElements, MaxBatch)

SequestrationValues == { Dec(-5, 0), Dec(0, 0), Dec(10, 0), Dec(255, 1) }
AreaValues == { Dec(-1, 0), Dec(0, 0), Dec(5, 1), Dec(5, 0), Dec(10, 0) }
DurationValues ==
    { Undefined, Dec(-1, 0), Dec(0, 0), Dec(1, 0), Dec(2, 0), Dec(5, 0) }
CreditValues == { Dec(-1, 0), Dec(-1, 1), Dec(0, 0), Dec(5, 1), Dec(100, 0), Dec(1275, 0) }
PriceValues == { Undefined, Dec(-1, 0), Dec(0, 0), Dec(15, 0), Dec(125, 1), Dec(20, 0) }

-----------------------------------------------------------------------------
(* Concurrent callers *)

Callers == 1..MaxCallers

\* a caller that has no call in flight and holds no result
Idle == [phase |-> "idle"]

-----------------------------------------------------------------------------
(* The state machine: callers obtain the instance, and call it *)

Init ==
    /\ NoAuth
    /\ instance = NoInstance
    /\ now = 0
    /\ op = "none"
    /\ args = <<>>
    /\ outcome = "none"
    /\ result = NoValue
    /\ thrown = NoValue
    /\ running = [c \in Callers |-> Idle]
    /\ store = <<>>
    /\ request = NoValue
    /\ response = NoValue
    /\ coreCalls = <<>>
    /\ database = "connected"

\* the call `name` with arguments `a` completed as r
Completed(name, a, r) ==
    /\ op' = name
    /\ args' = a
    /\ outcome' = r.status
    /\ result' = r.value
    /\ thrown' = r.error

\* MLService.getInstance()
GetInstance ==
    /\ instance' = getInstance(instance)
    /\ Completed("getInstance", <<>>, Returned(NoValue))
    /\ UNCHANGED <<now, running, apiVars, authVars>>

\* time passes
Tick ==
    /\ now < MaxClock
    /\ now' = now + 1
    /\ UNCHANGED <<instance, callVars, running, apiVars, authVars>>

\* mlService.predictCarbonSequestration(input)
Predict ==
    /\ instance # NoInstance
    /\ \E input \in Inputs :
          Completed("predictCarbonSequestration", <<input>>,
                    predictCarbonSequestration(instance, input, now))
    /\ instance' = thisAfter("predictCarbonSequestration", instance)
    /\ UNCHANGED <<now, running, apiVars, authVars>>

\* mlService.batchPredict(inputs)
BatchPredict ==
    /\ instance # NoInstance
    /\ \E inputs \in Batches :
          Completed("batchPredict", <<inputs>>, batchPredict(instance, inputs, now))
    /\ instance' = thisAfter("batchPredict", instance)
    /\ UNCHANGED <<now, running, apiVars, authVars>>

\* mlService.estimateCarbonCredits(carbonSequestration, areaHectares[, years])
EstimateCarbonCredits ==
    /\ instance # NoInstance
    /\ \E s \in SequestrationValues, a \in AreaValues, d \in DurationValues :
          Completed("estimateCarbonCredits", <<s, a, d>>,
                    estimateCarbonCredits(NumOf(s), a, d))
    /\ instance' = thisAfter("estimateCarbonCredits", instance)
    /\ UNCHANGED <<now, running, apiVars, authVars>>

\* mlService.calculateCreditValue(credits[, pricePerCredit])
CalculateCreditValue ==
    /\ instance # NoInstance
    /\ \E c \in CreditValues, p \in PriceValues :
          Completed("calculateCreditValue", <<c, p>>,
                    calculateCreditValue(NumOf(c), p))
    /\ instance' = thisAfter("calculateCreditValue", instance)
    /\ UNCHANGED <<now, running, apiVars, authVars>>

\* mlService.getModelInfo()
GetModelInfo ==
    /\ instance # NoInstance
    /\ Completed("getModelInfo", <<>>, getModelInfo(instance))
    /\ instance' = thisAfter("getModelInfo", instance)
    /\ UNCHANGED <<now, running, apiVars, authVars>>

Next ==
    \/ GetInstance
    \/ Tick
    \/ Predict
    \/ BatchPredict
    \/ EstimateCarbonCredits
    \/ CalculateCreditValue
    \/ GetModelInfo

Spec == Init /\ [][Next]_vars

-----------------------------------------------------------------------------
(* Concurrent callers of the shared instance.  A caller (a request handler,
   a script) decides on a call and, at some later moment, makes it; the
   methods of MLService are synchronous, so each call runs to completion
   before any other code of the process runs. *)

Call(method, a) == [method |-> method, args |-> a]

\* the calls the concurrent callers choose from
\* (a sequence: the calls have arguments of different shapes)
CallerCalls ==
    << Call("getInstance", <<>>),
       Call("getModelInfo", <<>>),
       Call("predictCarbonSequestration", <<Input(Dec(7, 1), Dec(75, 0), Dec(35, 1))>>),
       Call("predictCarbonSequestration", <<Input(Dec(1, 1), Dec(0, 0), Dec(5, 1))>>),
       Call("predictCarbonSequestration", <<Input(Dec(15, 1), Dec(75, 0), Dec(35, 1))>>),
       Call("batchPredict", << << Input(Dec(6, 1), Dec(60, 0), Dec(28, 1)),
                                  Input(Dec(8, 1), Dec(85, 0), Dec(42, 1)) >> >>),
       Call("batchPredict", << << Input(Dec(6, 1), Dec(60, 0), Dec(28, 1)),
                                  Input(Dec(5, 1), Dec(101, 0), Dec(4, 1)) >> >>),
       Call("estimateCarbonCredits", <<Dec(10, 0), Dec(5, 0), Dec(2, 0)>>),
       Call("estimateCarbonCredits", <<Dec(10, 0), Dec(0, 0), Undefined>>),
       Call("calculateCreditValue", <<Dec(100, 0), Undefined>>),
       Call("calculateCreditValue", <<Dec(-1, 0), Dec(15, 0)>>) >>

\* what the call returns or throws on the service object `self` at time t
Execute(self, call, t) ==
    CASE call.method = "getInstance" -> Returned(NoValue)
      [] call.method = "getModelInfo" -> getModelInfo(self)
      [] call.method = "predictCarbonSequestration" ->
            predictCarbonSequestration(self, call.args[1], t)
      [] call.method = "batchPredict" -> batchPredict(self, call.args[1], t)
      [] call.method = "estimateCarbonCredits" ->
            estimateCarbonCredits(NumOf(call.args[1]), call.args[2], call.args[3])
      [] call.method = "calculateCreditValue" ->
            calculateCreditValue(NumOf(call.args[1]), call.args[2])

Calling(call) == [phase |-> "calling", call |-> call]
Done(call, t, r) == [phase |-> "done", call |-> call, at |-> t, outcome |-> r]

InitCallers ==
    /\ NoAuth
    /\ instance = NoInstance
    /\ now = 0
    /\ op = "none"
    /\ args = <<>>
    /\ outcome = "none"
    /\ result = NoValue
    /\ thrown = NoValue
    /\ running = [c \in Callers |-> Idle]
    /\ store = <<>>
    /\ request = NoValue
    /\ response = NoValue
    /\ coreCalls = <<>>
    /\ database = "connected"

\* caller c decides on its next call
Issue(c) ==
    /\ running[c].phase # "calling"
    /\ \E i \in 1..Len(CallerCalls) :
          running' = [running EXCEPT ![c] = Calling(CallerCalls[i])]
    /\ UNCHANGED <<instance, now, callVars, apiVars, authVars>>

\* caller c makes the call: it runs to completion on the shared instance
Run(c) ==
    /\ running[c].phase = "calling"
    /\ LET call == running[c].call
       IN  /\ call.method # "getInstance" => instance # NoInstance
           /\ running' = [running EXCEPT ![c] = Done(call, now, Execute(instance, call, now))]
           /\ instance' = IF call.method = "getInstance"
                          THEN getInstance(instance)
                          ELSE thisAfter(call.method, instance)
    /\ UNCHANGED <<now, callVars, apiVars, authVars>>

\* time passes
CallersTick ==
    /\ now < MaxClock
    /\ now' = now + 1
    /\ UNCHANGED <<instance, callVars, running, apiVars, authVars>>

NextCallers ==
    \/ \E c \in Callers : Issue(c)
    \/ \E c \in Callers : Run(c)
    \/ CallersTick

SpecCallers == InitCallers /\ [][NextCallers]_vars

-----------------------------------------------------------------------------
(* The carbon routes of the HTTP server.  Each handler is an operator from  *)
(* the request, the service instance, the state of the database, the        *)
(* stored predictions and the clock to the response it sends, the store it  *)
(* leaves and the service methods it called.                                *)

Null == [null |-> TRUE]

\* a JavaScript array, as a request body carries it
Array(s) == [array |-> s]
IsArray(v) == "array" \in DOMAIN v

\* res.status(status).json(body)
Json(status, body) == [status |-> status, body |-> body]

\* what a handler leaves behind
Handled(resp, st, calls) == [response |-> resp, store |-> st, calls |-> calls]

\* the Authorization header of a request: absent, or a bearer credential
Bearer(credentials) == [scheme |-> "Bearer ", credentials |-> credentials]

\* req.headers.authorization?.replace("Bearer ", "")
TokenOf(req) ==
    IF req.authorization = Undefined THEN Undefined
    ELSE [value |-> req.authorization.credentials]

\* variant: only the empty token taken as missing
NoToken_EmptyOnly(token) == token # Undefined /\ token.value = ""

\* !token
NoToken(token) == token = Undefined \/ token.value = ""

FarmerAsha == [ type |-> "farmer", farmer |-> [id |-> "farmer-1", name |-> "Asha"] ]
FarmerRavi == [ type |-> "farmer", farmer |-> [id |-> "farmer-2", name |-> "Ravi"] ]
AdminUser == [ type |-> "admin", admin |-> [id |-> "admin-1", name |-> "Admin"] ]

\* authService.getUserByToken(token): the user the token was issued to, or
\* null for a token that was issued to nobody
getUserByToken(token) ==
    IF token = Undefined THEN Null
    ELSE CASE token.value = "token-asha"  -> FarmerAsha
           [] token.value = "token-ravi"  -> FarmerRavi
           [] token.value = "token-admin" -> AdminUser
           [] OTHER                       -> Null

\* !user || user.type !== "farmer"
NotFarmer(user) == user = Null \/ user.type # "farmer"

\* the value is a whole number
IsInt(v) == v.m % Pow10(v.e) = 0

\* the messages of the validators of /predict that reject the body, in the
\* order the validators are declared
bodyErrors(body) ==
    LET e1 == IF body.ndvi # Undefined /\ DecLe(Dec(1, 1), body.ndvi)
                 /\ DecLe(body.ndvi, Dec(9, 1))
              THEN <<>> ELSE <<"NDVI must be between 0.1 and 0.9">>
        e2 == IF body.canopyCoverPercent # Undefined
                 /\ DecLe(Dec(0, 0), body.canopyCoverPercent)
                 /\ DecLe(body.canopyCoverPercent, Dec(100, 0))
              THEN e1 ELSE Append(e1, "Canopy cover must be between 0 and 100%")
        e3 == IF body.soilCarbonPercent # Undefined
                 /\ DecLe(Dec(5, 1), body.soilCarbonPercent)
                 /\ DecLe(body.soilCarbonPercent, Dec(8, 0))
              THEN e2 ELSE Append(e2, "Soil carbon must be between 0.5 and 8%")
        e4 == IF body.areaHectares = Undefined
                 \/ DecLt(Dec(0, 0), body.areaHectares)
              THEN e3 ELSE Append(e3, "Area must be positive")
        e5 == IF body.projectDurationYears = Undefined
                 \/ (IsInt(body.projectDurationYears)
                     /\ DecLt(Dec(0, 0), body.projectDurationYears))
              THEN e4 ELSE Append(e4, "Project duration must be positive")
    IN  e5

\* error.message.includes("Invalid input parameters")
IsInvalidInput(error) == error.prefix = "Invalid input parameters: "

\* variant: every error of the service answered as the caller's mistake
predictCatch_AllClient(error) ==
    Json(400, [success |-> FALSE, message |-> <<error.prefix, error.parts>>])

\* the catch block of predictCarbon
predictCatch(error) ==
    IF IsInvalidInput(error)
    THEN Json(400, [success |-> FALSE, message |-> <<error.prefix, error.parts>>])
    ELSE Json(500, [success |-> FALSE,
                    message |-> "Failed to calculate carbon prediction"])

\* the catch block of batchPredictCarbon
batchCatch(error) ==
    IF IsInvalidInput(error)
    THEN Json(400, [success |-> FALSE, message |-> <<error.prefix, error.parts>>])
    ELSE Json(500, [success |-> FALSE,
                    message |-> "Failed to process batch predictions"])

\* collection.insertOne / insertMany on a database in state db: the documents
\* are appended when the database is connected; getDb() gives nothing when it
\* is disconnected and the insert rejects when it is failing, and the handler
\* goes on in both cases
insertInto(db, st, docs) == IF db = "connected" THEN st \o docs ELSE st

\* variant: the token and the role looked at before the body
predictCarbon_AuthFirst(req, self, db, st, t) ==
    LET errors == bodyErrors(req.body)
        token == TokenOf(req)
        user == getUserByToken(token)
        ndvi == req.body.ndvi
        canopyCoverPercent == req.body.canopyCoverPercent
        soilCarbonPercent == req.body.soilCarbonPercent
        areaHectares == Default(req.body.areaHectares, Dec(1, 0))
        projectDurationYears == Default(req.body.projectDurationYears, Dec(1, 0))
        prediction ==
            predictCarbonSequestration(self,
                [ ndvi |-> ndvi, canopyCoverPercent |-> canopyCoverPercent,
                  soilCarbonPercent |-> soilCarbonPercent ], t)
        withArea == DecLt(Dec(0, 0), areaHectares)
        estimate == estimateCarbonCredits(prediction.value.carbonSequestration,
                                          areaHectares, projectDurationYears)
        creditValue == calculateCreditValue(estimate.value.totalCredits, Undefined)
        creditsInfo ==
            IF withArea
            THEN [ totalCredits       |-> estimate.value.totalCredits,
                   annualCredits      |-> estimate.value.annualCredits,
                   totalSequestration |-> estimate.value.totalSequestration,
                   valueUSD           |-> creditValue.value.valueUSD,
                   pricePerCredit     |-> creditValue.value.pricePerCredit ]
            ELSE Null
        document ==
            [ farmerId   |-> user.farmer.id,
              timestamp  |-> t,
              input      |-> [ ndvi |-> ndvi,
                               canopyCoverPercent |-> canopyCoverPercent,
                               soilCarbonPercent |-> soilCarbonPercent,
                               areaHectares |-> areaHectares,
                               projectDurationYears |-> projectDurationYears ],
              prediction |-> prediction.value,
              credits    |-> creditsInfo,
              createdAt  |-> t ]
    IN  IF NoToken(token)
        THEN Handled(Json(401, [success |-> FALSE,
                                message |-> "Authentication token required"]),
                     st, <<>>)
        ELSE IF NotFarmer(user)
        THEN Handled(Json(403, [success |-> FALSE,
                                message |-> "Farmer access required"]), st, <<>>)
        ELSE IF Len(errors) > 0
        THEN Handled(Json(400, [success |-> FALSE, errors |-> errors]), st, <<>>)
        ELSE IF prediction.status = "threw"
        THEN Handled(predictCatch(prediction.error), st,
                     <<"predictCarbonSequestration">>)
        ELSE IF withArea /\ estimate.status = "threw"
        THEN Handled(predictCatch(estimate.error), st,
                     <<"predictCarbonSequestration", "estimateCarbonCredits">>)
        ELSE IF withArea /\ creditValue.status = "threw"
        THEN Handled(predictCatch(creditValue.error), st,
                     <<"predictCarbonSequestration", "estimateCarbonCredits",
                       "calculateCreditValue">>)
        ELSE Handled(Json(200, [ success    |-> TRUE,
                                 prediction |-> prediction.value,
                                 credits    |-> creditsInfo,
                                 farmer     |-> [ id   |-> user.farmer.id,
                                                  name |-> user.farmer.name ] ]),
                     insertInto(db, st, <<document>>),
                     IF withArea
                     THEN <<"predictCarbonSequestration", "estimateCarbonCredits",
                            "calculateCreditValue">>
                     ELSE <<"predictCarbonSequestration">>)

\* predictCarbon: POST /api/carbon/predict
predictCarbon(req, self, db, st, t) ==
    LET errors == bodyErrors(req.body)
        token == TokenOf(req)
        user == getUserByToken(token)
        ndvi == req.body.ndvi
        canopyCoverPercent == req.body.canopyCoverPercent
        soilCarbonPercent == req.body.soilCarbonPercent
        areaHectares == Default(req.body.areaHectares, Dec(1, 0))
        projectDurationYears == Default(req.body.projectDurationYears, Dec(1, 0))
        prediction ==
            predictCarbonSequestration(self,
                [ ndvi |-> ndvi, canopyCoverPercent |-> canopyCoverPercent,
                  soilCarbonPercent |-> soilCarbonPercent ], t)
        withArea == DecLt(Dec(0, 0), areaHectares)
        estimate == estimateCarbonCredits(prediction.value.carbonSequestration,
                                          areaHectares, projectDurationYears)
        creditValue == calculateCreditValue(estimate.value.totalCredits, Undefined)
        creditsInfo ==
            IF withArea
            THEN [ totalCredits       |-> estimate.value.totalCredits,
                   annualCredits      |-> estimate.value.annualCredits,
                   totalSequestration |-> estimate.value.totalSequestration,
                   valueUSD           |-> creditValue.value.valueUSD,
                   pricePerCredit     |-> creditValue.value.pricePerCredit ]
            ELSE Null
        document ==
            [ farmerId   |-> user.farmer.id,
              timestamp  |-> t,
              input      |-> [ ndvi |-> ndvi,
                               canopyCoverPercent |-> canopyCoverPercent,
                               soilCarbonPercent |-> soilCarbonPercent,
                               areaHectares |-> areaHectares,
                               projectDurationYears |-> projectDurationYears ],
              prediction |-> prediction.value,
              credits    |-> creditsInfo,
              createdAt  |-> t ]
    IN  IF Len(errors) > 0
        THEN Handled(Json(400, [success |-> FALSE, errors |-> errors]), st, <<>>)
        ELSE IF NoToken(token)
        THEN Handled(Json(401, [success |-> FALSE,
                                message |-> "Authentication token required"]),
                     st, <<>>)
        ELSE IF NotFarmer(user)
        THEN Handled(Json(403, [success |-> FALSE,
                                message |-> "Farmer access required"]), st, <<>>)
        ELSE IF prediction.status = "threw"
        THEN Handled(predictCatch(prediction.error), st,
                     <<"predictCarbonSequestration">>)
        ELSE IF withArea /\ estimate.status = "threw"
        THEN Handled(predictCatch(estimate.error), st,
                     <<"predictCarbonSequestration", "estimateCarbonCredits">>)
        ELSE IF withArea /\ creditValue.status = "threw"
        THEN Handled(predictCatch(creditValue.error), st,
                     <<"predictCarbonSequestration", "estimateCarbonCredits",
                       "calculateCreditValue">>)
        ELSE Handled(Json(200, [ success    |-> TRUE,
                                 prediction |-> prediction.value,
                                 credits    |-> creditsInfo,
                                 farmer     |-> [ id   |-> user.farmer.id,
                                                  name |-> user.farmer.name ] ]),
                     insertInto(db, st, <<document>>),
                     IF withArea
                     THEN <<"predictCarbonSequestration", "estimateCarbonCredits",
                            "calculateCreditValue">>
                     ELSE <<"predictCarbonSequestration">>)

\* a TypeError raised by reading a property of null
TypeError(message) == [name |-> "TypeError", prefix |-> message, parts |-> <<>>]

\* index of the first null element of an array, 0 when it has none
RECURSIVE firstNull(_, _)
firstNull(arr, i) ==
    IF i > Len(arr) THEN 0
    ELSE IF arr[i] = Null THEN i ELSE firstNull(arr, i + 1)

\* mlService.batchPredict(predictionRequests) on the elements of a request
\* body: validateInput reads input.ndvi, which raises a TypeError on a null
\* element when the map reaches it
batchPredictBody(self, arr, t) ==
    LET k == firstNull(arr, 1)
        r == batchPredict(self, IF k = 0 THEN arr ELSE SubSeq(arr, 1, k - 1), t)
    IN  IF k = 0 \/ r.status = "threw" THEN r
        ELSE Threw(TypeError("Cannot read properties of null (reading 'ndvi')"))

\* variant: a document for the first result only
batchData_FirstOnly(user, arr, results, t) ==
    << [ farmerId   |-> user.farmer.id,
         timestamp  |-> t,
         input      |-> arr[1],
         prediction |-> results[1],
         createdAt  |-> t ] >>

\* results.map((result, index) => ({ farmerId, timestamp, input, prediction,
\* createdAt }))
batchData(user, arr, results, t) ==
    [ index \in 1..Len(results) |->
        [ farmerId   |-> user.farmer.id,
          timestamp  |-> t,
          input      |-> arr[index],
          prediction |-> results[index],
          createdAt  |-> t ] ]

\* variant: the size of the batch never looked at
batchPredictCarbon_NoCap(req, self, db, st, t) ==
    LET token == TokenOf(req)
        user == getUserByToken(token)
        predictionRequests == req.body.predictions
        results == batchPredictBody(self, predictionRequests.array, t)
    IN  IF NoToken(token)
        THEN Handled(Json(401, [success |-> FALSE,
                                message |-> "Authentication token required"]),
                     st, <<>>)
        ELSE IF NotFarmer(user)
        THEN Handled(Json(403, [success |-> FALSE,
                                message |-> "Farmer access required"]), st, <<>>)
        ELSE IF ~IsArray(predictionRequests) \/ Len(predictionRequests.array) = 0
        THEN Handled(Json(400, [success |-> FALSE,
                                message |-> "Predictions array is required"]),
                     st, <<>>)
        ELSE IF results.status = "threw"
        THEN Handled(batchCatch(results.error), st, <<"batchPredict">>)
        ELSE Handled(Json(200, [ success     |-> TRUE,
                                 count       |-> Len(results.value),
                                 predictions |-> results.value,
                                 farmer      |-> [ id   |-> user.farmer.id,
                                                   name |-> user.farmer.name ] ]),
                     insertInto(db, st,
                        batchData(user, predictionRequests.array, results.value, t)),
                     <<"batchPredict">>)

\* variant: the insert made outside the inner try, so that its failure reaches
\* the catch block of the handler
batchPredictCarbon_InsertUncaught(req, self, db, st, t) ==
    LET token == TokenOf(req)
        user == getUserByToken(token)
        predictionRequests == req.body.predictions
        results == batchPredictBody(self, predictionRequests.array, t)
    IN  IF NoToken(token)
        THEN Handled(Json(401, [success |-> FALSE,
                                message |-> "Authentication token required"]),
                     st, <<>>)
        ELSE IF NotFarmer(user)
        THEN Handled(Json(403, [success |-> FALSE,
                                message |-> "Farmer access required"]), st, <<>>)
        ELSE IF ~IsArray(predictionRequests) \/ Len(predictionRequests.array) = 0
        THEN Handled(Json(400, [success |-> FALSE,
                                message |-> "Predictions array is required"]),
                     st, <<>>)
        ELSE IF Len(predictionRequests.array) > 100
        THEN Handled(Json(400, [success |-> FALSE,
                                message |-> "Maximum 100 predictions per batch"]),
                     st, <<>>)
        ELSE IF results.status = "threw"
        THEN Handled(batchCatch(results.error), st, <<"batchPredict">>)
        ELSE IF db = "failing"
        THEN Handled(batchCatch(Error("insertMany failed", <<>>)), st,
                     <<"batchPredict">>)
        ELSE Handled(Json(200, [ success     |-> TRUE,
                                 count       |-> Len(results.value),
                                 predictions |-> results.value,
                                 farmer      |-> [ id   |-> user.farmer.id,
                                                   name |-> user.farmer.name ] ]),
                     insertInto(db, st,
                        batchData(user, predictionRequests.array, results.value, t)),
                     <<"batchPredict">>)

\* batchPredictCarbon: POST /api/carbon/batch-predict
batchPredictCarbon(req, self, db, st, t) ==
    LET token == TokenOf(req)
        user == getUserByToken(token)
        predictionRequests == req.body.predictions
        results == batchPredictBody(self, predictionRequests.array, t)
    IN  IF NoToken(token)
        THEN Handled(Json(401, [success |-> FALSE,
                                message |-> "Authentication token required"]),
                     st, <<>>)
        ELSE IF NotFarmer(user)
        THEN Handled(Json(403, [success |-> FALSE,
                                message |-> "Farmer access required"]), st, <<>>)
        ELSE IF ~IsArray(predictionRequests) \/ Len(predictionRequests.array) = 0
        THEN Handled(Json(400, [success |-> FALSE,
                                message |-> "Predictions array is required"]),
                     st, <<>>)
        ELSE IF Len(predictionRequests.array) > 100
        THEN Handled(Json(400, [success |-> FALSE,
                                message |-> "Maximum 100 predictions per batch"]),
                     st, <<>>)
        ELSE IF results.status = "threw"
        THEN Handled(batchCatch(results.error), st, <<"batchPredict">>)
        ELSE Handled(Json(200, [ success     |-> TRUE,
                                 count       |-> Len(results.value),
                                 predictions |-> results.value,
                                 farmer      |-> [ id   |-> user.farmer.id,
                                                   name |-> user.farmer.name ] ]),
                     insertInto(db, st,
                        batchData(user, predictionRequests.array, results.value, t)),
                     <<"batchPredict">>)

\* getModelInfo: GET /api/carbon/model-info
getModelInfoRoute(req, self, db, st, t) ==
    LET modelInfo == getModelInfo(self)
    IN  Handled(Json(200,
                  [ success     |-> TRUE,
                    model       |-> modelInfo.value,
                    description |-> "Carbon Stock Estimation Model for predicting carbon sequestration in forest ecosystems",
                    inputRequirements |->
                      [ ndvi               |-> [min |-> Dec(1, 1), max |-> Dec(9, 1)],
                        canopyCoverPercent |-> [min |-> Dec(0, 0), max |-> Dec(100, 0)],
                        soilCarbonPercent  |-> [min |-> Dec(5, 1), max |-> Dec(8, 0)] ],
                    output      |-> [ unit |-> "tCO2e/ha" ] ]),
                st, <<"getModelInfo">>)

\* variant: no limit
Take_All(s, n) == s

\* the first n elements of a sequence
Take(s, n) == SubSeq(s, 1, IF Len(s) < n THEN Len(s) ELSE n)

\* sort({ timestamp: -1 }): latest first; documents of one timestamp keep the
\* order in which they were inserted.  The document at index i comes after
\* the later ones and after the earlier inserted ones of its own timestamp.
sortByTimestampDesc(docs) ==
    LET before(i) == { j \in 1..Len(docs) :
                          \/ docs[j].timestamp > docs[i].timestamp
                          \/ docs[j].timestamp = docs[i].timestamp /\ j < i }
    IN  [ k \in 1..Len(docs) |->
            docs[CHOOSE i \in 1..Len(docs) : Cardinality(before(i)) = k - 1] ]

\* find({ farmerId })
findByFarmer(st, farmerId) == SelectSeq(st, LAMBDA doc : doc.farmerId = farmerId)

\* pred.credits is there and not null
HasCredits(pred) == "credits" \in DOMAIN pred /\ pred.credits # Null

\* the sums the forEach of getFarmerCarbonHistory accumulates (the array is
\* summed by halves, which keeps the evaluation shallow on long arrays)
RECURSIVE sumCredits(_)
sumCredits(preds) ==
    IF preds = <<>> THEN NumOf(Dec(0, 0))
    ELSE IF Len(preds) = 1
    THEN IF HasCredits(preds[1]) THEN preds[1].credits.totalCredits
         ELSE NumOf(Dec(0, 0))
    ELSE LET half == Len(preds) \div 2
         IN  NumAdd(sumCredits(SubSeq(preds, 1, half)),
                    sumCredits(SubSeq(preds, half + 1, Len(preds))))

RECURSIVE sumValueUSD(_)
sumValueUSD(preds) ==
    IF preds = <<>> THEN NumOf(Dec(0, 0))
    ELSE IF Len(preds) = 1
    THEN IF HasCredits(preds[1]) THEN preds[1].credits.valueUSD
         ELSE NumOf(Dec(0, 0))
    ELSE LET half == Len(preds) \div 2
         IN  NumAdd(sumValueUSD(SubSeq(preds, 1, half)),
                    sumValueUSD(SubSeq(preds, half + 1, Len(preds))))

\* one entry of carbonData.predictions
historyEntry(pred) ==
    [ timestamp |-> pred.timestamp,
      input     |-> pred.input,
      result    |-> pred.prediction,
      credits   |-> IF HasCredits(pred) THEN pred.credits.totalCredits ELSE Undefined,
      valueUSD  |-> IF HasCredits(pred) THEN pred.credits.valueUSD ELSE Undefined ]

\* the answer of getFarmerCarbonHistory for the documents the query gave
historyData(farmerId, predictions, t) ==
    Json(200, [ success |-> TRUE,
                data    |-> [ farmerId      |-> farmerId,
                              predictions   |-> [ i \in 1..Len(predictions) |->
                                                    historyEntry(predictions[i]) ],
                              totalCredits  |-> sumCredits(predictions),
                              totalValueUSD |-> sumValueUSD(predictions),
                              lastUpdated   |-> t ] ])

\* variant: the query not restricted to the caller
getFarmerCarbonHistory_AllFarmers(req, self, db, st, t) ==
    LET token == TokenOf(req)
        user == getUserByToken(token)
        predictions == Take(sortByTimestampDesc(st), 50)
    IN  IF NoToken(token)
        THEN Handled(Json(401, [success |-> FALSE,
                                message |-> "Authentication token required"]),
                     st, <<>>)
        ELSE IF NotFarmer(user)
        THEN Handled(Json(403, [success |-> FALSE,
                                message |-> "Farmer access required"]), st, <<>>)
        ELSE IF db = "failing"
        THEN Handled(Json(500, [success |-> FALSE,
                                message |-> "Failed to retrieve carbon history"]),
                     st, <<>>)
        ELSE IF db = "disconnected"
        THEN Handled(historyData(user.farmer.id, <<>>, t), st, <<>>)
        ELSE Handled(historyData(user.farmer.id, predictions, t), st, <<>>)

\* getFarmerCarbonHistory: GET /api/carbon/history
getFarmerCarbonHistory(req, self, db, st, t) ==
    LET token == TokenOf(req)
        user == getUserByToken(token)
        farmerId == user.farmer.id
        predictions == Take(sortByTimestampDesc(findByFarmer(st, farmerId)), 50)
    IN  IF NoToken(token)
        THEN Handled(Json(401, [success |-> FALSE,
                                message |-> "Authentication token required"]),
                     st, <<>>)
        ELSE IF NotFarmer(user)
        THEN Handled(Json(403, [success |-> FALSE,
                                message |-> "Farmer access required"]), st, <<>>)
        ELSE IF db = "failing"
        THEN Handled(Json(500, [success |-> FALSE,
                                message |-> "Failed to retrieve carbon history"]),
                     st, <<>>)
        ELSE IF db = "disconnected"
        THEN Handled(historyData(farmerId, <<>>, t), st, <<>>)
        ELSE Handled(historyData(farmerId, predictions, t), st, <<>>)

\* the sum of prediction.carbonSequestration over the documents
RECURSIVE sumSequestration(_)
sumSequestration(docs) ==
    IF docs = <<>> THEN NumOf(Dec(0, 0))
    ELSE NumAdd(Head(docs).prediction.carbonSequestration,
                sumSequestration(Tail(docs)))

\* getCarbonStatistics: GET /api/carbon/statistics
getCarbonStatistics(req, self, db, st, t) ==
    LET token == TokenOf(req)
        user == getUserByToken(token)
        totalPredictions == Len(st)
        totalFarmers == { st[i].farmerId : i \in 1..Len(st) }
        recentPredictions == Take(sortByTimestampDesc(st), 10)
        statistics ==
            [ totalPredictions |-> totalPredictions,
              totalFarmers     |-> Cardinality(totalFarmers),
              averageCarbonSequestration |->
                  IF Len(st) = 0 THEN NumOf(Dec(0, 0))
                  ELSE NumDivInt(sumSequestration(st), Len(st)),
              recentActivity   |->
                  [ i \in 1..Len(recentPredictions) |->
                      [ farmerId  |-> recentPredictions[i].farmerId,
                        timestamp |-> recentPredictions[i].timestamp,
                        carbonSequestration |->
                            recentPredictions[i].prediction.carbonSequestration,
                        confidence |-> recentPredictions[i].prediction.confidence ] ],
              lastUpdated      |-> t ]
    IN  IF NoToken(token)
        THEN Handled(Json(401, [success |-> FALSE,
                                message |-> "Authentication token required"]),
                     st, <<>>)
        ELSE IF user = Null
        THEN Handled(Json(403, [success |-> FALSE,
                                message |-> "Authentication required"]), st, <<>>)
        ELSE IF db = "disconnected"
        THEN Handled(Json(500, [success |-> FALSE,
                                message |-> "Database not available"]), st, <<>>)
        ELSE IF db = "failing"
        THEN Handled(Json(500, [success |-> FALSE,
                                message |-> "Failed to retrieve carbon statistics"]),
                     st, <<>>)
        ELSE Handled(Json(200, [success |-> TRUE, statistics |-> statistics]),
                     st, <<>>)

\* the instance after the service methods a handler called
RECURSIVE thisAfterAll(_, _)
thisAfterAll(calls, self) ==
    IF calls = <<>> THEN self
    ELSE thisAfterAll(Tail(calls), thisAfter(Head(calls), self))

(* The requests clients send *)

Req(route, authorization, body) ==
    [route |-> route, authorization |-> authorization, body |-> body]

Authorizations ==
    { Undefined, Bearer("token-asha"), Bearer("token-ravi"),
      Bearer("token-admin"), Bearer("token-nobody") }

PredictBody(n, c, s, a, d) ==
    [ ndvi |-> n, canopyCoverPercent |-> c, soilCarbonPercent |-> s,
      areaHectares |-> a, projectDurationYears |-> d ]

PredictBodies ==
    { PredictBody(Dec(7, 1), Dec(75, 0), Dec(35, 1), Undefined, Undefined),
      PredictBody(Dec(1, 1), Dec(0, 0), Dec(5, 1), Dec(5, 0), Dec(2, 0)),
      PredictBody(Dec(15, 1), Dec(75, 0), Dec(35, 1), Undefined, Undefined),
      PredictBody(Dec(7, 1), Dec(75, 0), Dec(35, 1), Dec(0, 0), Undefined),
      PredictBody(Undefined, Dec(101, 0), Dec(35, 1), Undefined, Dec(15, 1)) }

\* an array of n copies of one element
Repeat(x, n) == [i \in 1..n |-> x]

BatchBodies ==
    { [predictions |-> Undefined],
      [predictions |-> Array(<<>>)],
      [predictions |-> Array(<<Input(Dec(7, 1), Dec(75, 0), Dec(35, 1)),
                               Input(Dec(1, 1), Dec(0, 0), Dec(5, 1))>>)],
      [predictions |-> Array(<<Input(Dec(7, 1), Dec(75, 0), Dec(35, 1)),
                               Input(Dec(15, 1), Dec(75, 0), Dec(35, 1))>>)],
      [predictions |-> Array(<<Input(Dec(7, 1), Dec(75, 0), Dec(35, 1)), Null>>)],
      [predictions |-> Array(Repeat(Input(Dec(7, 1), Dec(75, 0), Dec(35, 1)), 101))] }

DatabaseStates == {"connected", "disconnected", "failing"}

-----------------------------------------------------------------------------
(* The state machine of the server: the routes module obtains the instance  *)
(* when it is loaded, and then requests are handled one at a time           *)

InitApi ==
    /\ NoAuth
    /\ instance = getInstance(NoInstance)
    /\ now = 0
    /\ op = "none"
    /\ args = <<>>
    /\ outcome = "none"
    /\ result = NoValue
    /\ thrown = NoValue
    /\ running = [c \in Callers |-> Idle]
    /\ store = <<>>
    /\ request = NoValue
    /\ response = NoValue
    /\ coreCalls = <<>>
    /\ database = "connected"

\* the request is answered as its handler h decided
Answered(req, h) ==
    /\ request' = req
    /\ response' = h.response
    /\ store' = h.store
    /\ coreCalls' = h.calls
    /\ instance' = thisAfterAll(h.calls, instance)
    /\ UNCHANGED <<now, callVars, running, database, authVars>>

\* the requests below are handled as long as the store holds MaxStore
\* documents at most

PostPredict ==
    \E a \in Authorizations, b \in PredictBodies :
       LET req == Req("predict", a, b)
           h == predictCarbon(req, instance, database, store, now)
       IN  /\ Len(h.store) <= MaxStore
           /\ Answered(req, h)

GetModelInfoRoute ==
    \E a \in Authorizations :
       LET req == Req("model-info", a, NoValue)
           h == getModelInfoRoute(req, instance, database, store, now)
       IN  /\ Len(h.store) <= MaxStore
           /\ Answered(req, h)

GetHistory ==
    \E a \in Authorizations :
       LET req == Req("history", a, NoValue)
           h == getFarmerCarbonHistory(req, instance, database, store, now)
       IN  /\ Len(h.store) <= MaxStore
           /\ Answered(req, h)

PostBatchPredict ==
    \E a \in Authorizations, b \in BatchBodies :
       LET req == Req("batch-predict", a, b)
           h == batchPredictCarbon(req, instance, database, store, now)
       IN  /\ Len(h.store) <= MaxStore
           /\ Answered(req, h)

GetStatistics ==
    \E a \in Authorizations :
       LET req == Req("statistics", a, NoValue)
           h == getCarbonStatistics(req, instance, database, store, now)
       IN  /\ Len(h.store) <= MaxStore
           /\ Answered(req, h)

\* the database connection is lost, starts failing, or comes back
DatabaseChange ==
    /\ \E d \in DatabaseStates : d # database /\ database' = d
    /\ UNCHANGED <<instance, now, callVars, running, store, request, response,
                   coreCalls, authVars>>

NextApi ==
    \/ PostPredict
    \/ GetModelInfoRoute
    \/ GetHistory
    \/ PostBatchPredict
    \/ GetStatistics
    \/ DatabaseChange

SpecApi == InitApi /\ [][NextApi]_vars

-----------------------------------------------------------------------------
(* Histories read from a collection that earlier requests have filled: one  *)
(* request per clock tick, /predict and /batch-predict in turn.             *)

\* the document a /predict request leaves in the store
predictDocument(authorization, body, t) ==
    predictCarbon(Req("predict", authorization, body), MLServiceNew,
                  "connected", <<>>, t).store[1]

\* the document a /batch-predict request of one element leaves in the store
batchDocument(authorization, element, t) ==
    batchPredictCarbon(Req("batch-predict", authorization,
                           [predictions |-> Array(<<element>>)]),
                       MLServiceNew, "connected", <<>>, t).store[1]

\* the collection after n requests at times 1..n: the odd ones are /predict
\* requests with areas 1 to 5, the even ones batches of one element; every
\* request whose number is a multiple of `other` comes from the second
\* farmer (none when other = 0), the rest from the first
FilledStore(n, other) ==
    [ i \in 1..n |->
        LET authorization ==
                IF other > 0 /\ i % other = 0 THEN Bearer("token-ravi")
                ELSE Bearer("token-asha")
        IN  IF i % 2 = 1
            THEN predictDocument(authorization,
                     PredictBody(Dec(7, 1), Dec(75, 0), Dec(35, 1),
                                 Dec((i % 5) + 1, 0), Undefined), i)
            ELSE batchDocument(authorization,
                     Input(Dec(1, 1), Dec(0, 0), Dec(5, 1)), i) ]

HistoryLengths ==
    { 0, 1, 2, MaxHistory - 3, MaxHistory - 2, MaxHistory - 1, MaxHistory }

InitHistory ==
    /\ NoAuth
    /\ instance = getInstance(NoInstance)
    /\ \E n \in HistoryLengths, other \in {0, 1, 3} :
          /\ store = FilledStore(n, other)
          /\ now = n + 1
    /\ database \in DatabaseStates
    /\ op = "none"
    /\ args = <<>>
    /\ outcome = "none"
    /\ result = NoValue
    /\ thrown = NoValue
    /\ running = [c \in Callers |-> Idle]
    /\ request = NoValue
    /\ response = NoValue
    /\ coreCalls = <<>>

\* a GET /api/carbon/history request is handled
ReadHistory ==
    \E a \in Authorizations :
       LET req == Req("history", a, NoValue)
           h == getFarmerCarbonHistory(req, instance, database, store, now)
       IN  /\ h.store = store
           /\ Answered(req, h)

NextHistory == ReadHistory

SpecHistory == InitHistory /\ [][NextHistory]_vars

-----------------------------------------------------------------------------
(* The three validators of one input: the client's, the route's, the service's *)

\* validateCarbonInput(input) of the client: the list of all the errors
validateCarbonInput(input) ==
    LET e1 == IF DecLt(input.ndvi, Dec(1, 1)) \/ DecLt(Dec(9, 1), input.ndvi)
              THEN <<"NDVI must be between 0.1 and 0.9">> ELSE <<>>
        e2 == IF DecLt(input.canopyCoverPercent, Dec(0, 0))
                 \/ DecLt(Dec(100, 0), input.canopyCoverPercent)
              THEN Append(e1, "Canopy cover must be between 0 and 100%") ELSE e1
        e3 == IF DecLt(input.soilCarbonPercent, Dec(5, 1))
                 \/ DecLt(Dec(8, 0), input.soilCarbonPercent)
              THEN Append(e2, "Soil carbon must be between 0.5 and 8%") ELSE e2
        e4 == IF input.areaHectares # Undefined
                 /\ DecLe(input.areaHectares, Dec(0, 0))
              THEN Append(e3, "Area must be positive") ELSE e3
        e5 == IF input.projectDurationYears # Undefined
                 /\ DecLe(input.projectDurationYears, Dec(0, 0))
              THEN Append(e4, "Project duration must be positive") ELSE e4
    IN  e5

\* the objects a caller can send: each of the three fields is a sampled number
\* or left out, with an area and a duration that are left out, positive, zero
\* or (the duration) not whole
ValidatedInputs ==
    { PredictBody(n, c, s, ad[1], ad[2]) :
        n \in NdviValues \cup {Undefined},
        c \in CanopyValues \cup {Undefined},
        s \in SoilValues \cup {Undefined},
        ad \in { <<Undefined, Undefined>>, <<Dec(5, 0), Dec(2, 0)>>,
                 <<Dec(0, 0), Undefined>>, <<Undefined, Dec(0, 0)>>,
                 <<Dec(5, 0), Dec(15, 1)>> } }

\* no validator has judged the input yet
NotJudged == [client |-> NoValue, route |-> NoValue, service |-> NoValue]

InitValidators ==
    /\ NoAuth
    /\ instance = getInstance(NoInstance)
    /\ now = 0
    /\ op = "none"
    /\ \E input \in ValidatedInputs : args = <<input>>
    /\ outcome = "none"
    /\ result = NotJudged
    /\ thrown = NoValue
    /\ running = [c \in Callers |-> Idle]
    /\ store = <<>>
    /\ request = NoValue
    /\ response = NoValue
    /\ coreCalls = <<>>
    /\ database = "connected"

\* the verdict of one validator is recorded
Judged(by, verdict) ==
    /\ result[by] = NoValue
    /\ result' = [result EXCEPT ![by] = verdict]
    /\ op' = by
    /\ UNCHANGED <<instance, now, args, outcome, thrown, running>>
    /\ UNCHANGED <<apiVars, authVars>>

\* the client validates the input before it sends it
ClientValidates ==
    /\ args # <<>>
    /\ Judged("client", Array(validateCarbonInput(args[1])))

\* the validators of POST /api/carbon/predict run on the input as a body
RouteValidates ==
    /\ args # <<>>
    /\ Judged("route", Array(bodyErrors(args[1])))

\* the service validates the input, as it does for each element of a batch
ServiceValidates ==
    /\ args # <<>>
    /\ Judged("service", validateInput(args[1]))

NextValidators == ClientValidates \/ RouteValidates \/ ServiceValidates

SpecValidators == InitValidators /\ [][NextValidators]_vars

-----------------------------------------------------------------------------
(* The auth function: login by a one-time code sent to an email address *)

\* how many invocations of the function run at the same time
MaxInvocations == 2

\* how many lifetimes of a code the clock runs through
MaxExpiries == 1

\* 5 * 60 * 1000 milliseconds
OtpLifetimeMs == 300000

Emails == { "asha@example.com", "ravi@example.com" }

\* generateOTP(): six digits chosen at random; two of them are sampled
OtpCodes == { "123456", "654321" }

\* isValidEmail(email), on the addresses that are sampled
isValidEmail(email) == email \in Emails

\* the email and the otp of a body: a sampled value, a string that is no
\* address, or the empty string for a field that is empty or left out; codes
\* are sent to both addresses, and one of them logs in
SendEmails == Emails \cup { "", "not-an-email" }
VerifyEmails == { "asha@example.com", "", "not-an-email" }
BodyOtps == OtpCodes \cup { "" }

\* the smallest index of a nonempty set of indexes
First(hits) == CHOOSE i \in hits : \A j \in hits : i <= j

\* the positions of the documents with { email, type: "login" }
otpsMatching(coll, email) ==
    { i \in 1..Len(coll) : coll[i].email = email /\ coll[i].type = "login" }

\* otps.findOne({ email, type: "login" })
otpsFindOne(coll, email) ==
    LET hits == otpsMatching(coll, email)
    IN  IF hits = {} THEN Null ELSE coll[First(hits)]

\* variant: deleteOne that removes nothing
otpsDeleteOne_Keep(coll, email) == coll

\* otps.deleteOne({ email, type: "login" }): the collection afterwards
otpsDeleteOne(coll, email) ==
    LET hits == otpsMatching(coll, email)
    IN  IF hits = {} THEN coll
        ELSE SubSeq(coll, 1, First(hits) - 1)
                \o SubSeq(coll, First(hits) + 1, Len(coll))

\* variant: updateOne that inserts a document every time
otpsUpdateOne_Insert(coll, doc) == Append(coll, doc)

\* otps.updateOne({ email, type: "login" }, { $set: doc }, { upsert: true }):
\* the collection afterwards
otpsUpdateOne(coll, doc) ==
    LET hits == otpsMatching(coll, doc.email)
    IN  IF hits = {} THEN Append(coll, doc)
        ELSE [coll EXCEPT ![First(hits)] = doc]

\* the document send-otp writes at time t
OtpDoc(email, otp, t) ==
    [email |-> email, otp |-> otp, type |-> "login", createdAt |-> t,
     expires |-> t + OtpLifetimeMs]

\* farmers.findOne({ email })
farmersFindOne(coll, email) ==
    LET hits == { i \in 1..Len(coll) : coll[i].email = email }
    IN  IF hits = {} THEN Null ELSE coll[First(hits)]

\* farmers.insertOne(farmer): the collection afterwards; the database gives
\* the document an _id no other document has
farmersInsertOne(coll, farmer) ==
    Append(coll, [_id |-> Len(coll) + 1, email |-> farmer.email,
                  verified |-> farmer.verified])

\* the farmer verify-otp creates for an email that has none
NewFarmer(email) == [email |-> email, verified |-> FALSE]

Invocations == 1..MaxInvocations

\* an invocation that is not running, and one at a step of a handler
NotInvoked == [pc |-> "idle"]
At(pc, email, otp) == [pc |-> pc, email |-> email, otp |-> otp]

Failure(status, message) == Json(status, [success |-> FALSE, message |-> message])

\* the 200 of verify-otp, with the user it logs in
LoggedIn(farmer) ==
    Json(200, [success |-> TRUE, farmerId |-> farmer._id, email |-> farmer.email])

InitOtp ==
    /\ instance = NoInstance
    /\ now = 0
    /\ op = "none"
    /\ args = <<>>
    /\ outcome = "none"
    /\ result = NoValue
    /\ thrown = NoValue
    /\ running = [c \in Callers |-> Idle]
    /\ store = <<>>
    /\ request = NoValue
    /\ response = NoValue
    /\ coreCalls = <<>>
    /\ database = "connected"
    /\ otps = <<>>
    /\ farmers = <<>>
    /\ invocations = [c \in Invocations |-> NotInvoked]
    /\ issued = [e \in Emails |-> NoValue]
    /\ spent = [e \in Emails |-> ""]

\* what no step of the auth function changes
AuthOnly == UNCHANGED <<instance, callVars, running, store, coreCalls, database>>

\* invocation c returns resp to the request of route with this body, and ends
Reply(c, route, email, otp, resp) ==
    /\ invocations' = [invocations EXCEPT ![c] = NotInvoked]
    /\ request' = [route |-> route, body |-> [email |-> email, otp |-> otp]]
    /\ response' = resp

\* invocation c waits for the database at a step of its handler
Await(c, at) ==
    /\ invocations' = [invocations EXCEPT ![c] = at]
    /\ UNCHANGED <<request, response>>

\* POST /api/auth/send-otp, up to the call of updateOne
SendOtp(c) ==
    /\ invocations[c] = NotInvoked
    /\ \E email \in SendEmails, otp \in OtpCodes :
          IF email = "" \/ ~isValidEmail(email)
          THEN Reply(c, "send-otp", email, "",
                     Failure(400, "Valid email is required"))
          ELSE Await(c, [pc |-> "updateOne", doc |-> OtpDoc(email, otp, now)])
    /\ UNCHANGED <<now, otps, farmers, issued, spent>>
    /\ AuthOnly

\* the database applies the updateOne of send-otp, and the handler replies
UpdateOtp(c) ==
    /\ invocations[c].pc = "updateOne"
    /\ LET doc == invocations[c].doc
       IN  /\ otps' = otpsUpdateOne(otps, doc)
           /\ issued' = [issued EXCEPT ![doc.email] = doc]
           /\ spent' = [spent EXCEPT ![doc.email] = ""]
           /\ Reply(c, "send-otp", doc.email, "",
                    Json(200, [success |-> TRUE,
                               message |-> "OTP sent successfully"]))
    /\ UNCHANGED <<now, farmers>>
    /\ AuthOnly

\* POST /api/auth/verify-otp, up to its first write: the body is checked, the
\* record is read and compared. The response, or the step the handler waits at
verifyOtp(email, otp, coll, t) ==
    LET record == otpsFindOne(coll, email)
    IN  IF email = "" \/ otp = ""
        THEN Failure(400, "Email and OTP are required")
        ELSE IF record = Null
        THEN Failure(400, "OTP not found or expired")
        ELSE IF record.expires < t
        THEN At("deleteExpired", email, otp)
        ELSE IF record.otp # otp
        THEN Failure(400, "Invalid OTP")
        ELSE At("deleteOne", email, otp)

VerifyOtp(c) ==
    /\ invocations[c] = NotInvoked
    /\ \E email \in VerifyEmails, otp \in BodyOtps :
          LET next == verifyOtp(email, otp, otps, now)
          IN  IF "pc" \in DOMAIN next
              THEN Await(c, next)
              ELSE Reply(c, "verify-otp", email, otp, next)
    /\ UNCHANGED <<now, otps, farmers, issued, spent>>
    /\ AuthOnly

\* the database applies the deleteOne of an expired record, and the handler
\* replies
DeleteExpiredOtp(c) ==
    /\ invocations[c].pc = "deleteExpired"
    /\ otps' = otpsDeleteOne(otps, invocations[c].email)
    /\ Reply(c, "verify-otp", invocations[c].email, invocations[c].otp,
             Failure(400, "OTP has expired"))
    /\ UNCHANGED <<now, farmers, issued, spent>>
    /\ AuthOnly

\* the database applies the deleteOne of the record that was verified
DeleteOtp(c) ==
    /\ invocations[c].pc = "deleteOne"
    /\ otps' = otpsDeleteOne(otps, invocations[c].email)
    /\ spent' = [spent EXCEPT ![invocations[c].email] = invocations[c].otp]
    /\ Await(c, [invocations[c] EXCEPT !.pc = "findFarmer"])
    /\ UNCHANGED <<now, farmers, issued>>
    /\ AuthOnly

\* the database answers farmers.findOne: a farmer that exists is logged in
FindFarmer(c) ==
    /\ invocations[c].pc = "findFarmer"
    /\ LET existing == farmersFindOne(farmers, invocations[c].email)
       IN  IF existing # Null
           THEN Reply(c, "verify-otp", invocations[c].email,
                      invocations[c].otp, LoggedIn(existing))
           ELSE Await(c, [invocations[c] EXCEPT !.pc = "insertOne"])
    /\ UNCHANGED <<now, otps, farmers, issued, spent>>
    /\ AuthOnly

\* the database applies farmers.insertOne, and the new farmer is logged in
InsertFarmer(c) ==
    /\ invocations[c].pc = "insertOne"
    /\ farmers' = farmersInsertOne(farmers, NewFarmer(invocations[c].email))
    /\ Reply(c, "verify-otp", invocations[c].email, invocations[c].otp,
             LoggedIn(farmers'[Len(farmers')]))
    /\ UNCHANGED <<now, otps, issued, spent>>
    /\ AuthOnly

\* the instants at which a record expires, and the millisecond after
Expiries ==
    UNION { { otps[i].expires, otps[i].expires + 1 } : i \in 1..Len(otps) }

\* time passes, to the next instant at which the answer of verify-otp changes
PassTime ==
    /\ \E t \in Expiries :
          /\ t > now
          /\ t <= MaxExpiries * OtpLifetimeMs + 1
          /\ now' = t
    /\ UNCHANGED <<authVars, request, response>>
    /\ AuthOnly

\* the TTL index on expires: the database removes a record that has expired
TtlExpire ==
    /\ \E i \in 1..Len(otps) :
          /\ otps[i].expires < now
          /\ otps' = SubSeq(otps, 1, i - 1) \o SubSeq(otps, i + 1, Len(otps))
    /\ UNCHANGED <<now, farmers, invocations, issued, spent, request, response>>
    /\ AuthOnly

NextOtp ==
    \/ \E c \in Invocations :
          \/ SendOtp(c)
          \/ UpdateOtp(c)
          \/ VerifyOtp(c)
          \/ DeleteExpiredOtp(c)
          \/ DeleteOtp(c)
          \/ FindFarmer(c)
          \/ InsertFarmer(c)
    \/ PassTime
    \/ TtlExpire

SpecOtp == InitOtp /\ [][NextOtp]_vars

-----------------------------------------------------------------------------
(* What the properties speak about *)

PredictCalled == op = "predictCarbonSequestration"
BatchCalled == op = "batchPredict"
EstimateCalled == op = "estimateCarbonCredits"
ValueCalled == op = "calculateCreditValue"

\* the documented ranges of the three features, bounds inclusive
NdviInRange(x) == DecLe(Dec(1, 1), x.ndvi) /\ DecLe(x.ndvi, Dec(9, 1))
CanopyInRange(x) ==
    DecLe(Dec(0, 0), x.canopyCoverPercent) /\ DecLe(x.canopyCoverPercent, Dec(100, 0))
SoilInRange(x) ==
    DecLe(Dec(5, 1), x.soilCarbonPercent) /\ DecLe(x.soilCarbonPercent, Dec(8, 0))
ValidInput(x) == NdviInRange(x) /\ CanopyInRange(x) /\ SoilInRange(x)

\* the messages of the features of x that are out of range
ViolationMessages(x) ==
    (IF NdviInRange(x) THEN {} ELSE {NdviMessage})
    \cup (IF CanopyInRange(x) THEN {} ELSE {CanopyMessage})
    \cup (IF SoilInRange(x) THEN {} ELSE {SoilMessage})

\* the near-boundary conditions of the confidence heuristic
NdviNear(x) == ~(DecLe(Dec(2, 1), x.ndvi) /\ DecLe(x.ndvi, Dec(8, 1)))
CanopyNear(x) ==
    ~(DecLe(Dec(10, 0), x.canopyCoverPercent) /\ DecLe(x.canopyCoverPercent, Dec(90, 0)))
SoilNear(x) ==
    ~(DecLe(Dec(1, 0), x.soilCarbonPercent) /\ DecLe(x.soilCarbonPercent, Dec(7, 0)))

\* k: how many of them hold
NearCount(x) ==
    (IF NdviNear(x) THEN 1 ELSE 0) + (IF CanopyNear(x) THEN 1 ELSE 0)
    + (IF SoilNear(x) THEN 1 ELSE 0)

RECURSIVE Pow9(_)
Pow9(k) == IF k = 0 THEN 1 ELSE 9 * Pow9(k - 1)

\* max(0.7, 0.9^k)
ExpectedConfidence(k) ==
    LET p == Dec(Pow9(k), k)
    IN  IF DecLe(p, Dec(7, 1)) THEN Dec(7, 1) ELSE p

\* bias + coeff_ndvi*ndvi + coeff_canopy*canopy + coeff_soil*soil
LinearModel(c, x) ==
    NumAdd(c.bias,
           NumAdd(NumTimes(c.ndvi, x.ndvi),
                  NumAdd(NumTimes(c.canopyCoverPercent, x.canopyCoverPercent),
                         NumTimes(c.soilCarbonPercent, x.soilCarbonPercent))))

-----------------------------------------------------------------------------
(* Properties of predictCarbonSequestration *)

\* C1: for every input inside the three inclusive ranges,
\* predictCarbonSequestration returns (it does not throw) and the
\* confidence it returns lies in [0.7, 1.0].
C1_ValidInputNeverRaises ==
    (PredictCalled /\ ValidInput(args[1])) =>
        /\ outcome = "returned"
        /\ DecLe(Dec(7, 1), result.confidence)
        /\ DecLe(result.confidence, Dec(1, 0))

\* a call on the corner of the ranges (0.1, 0, 0.5) has returned
C1_Witness ==
    /\ PredictCalled
    /\ args[1] = Input(Dec(1, 1), Dec(0, 0), Dec(5, 1))
    /\ outcome = "returned"

C3_LinearCombination ==
    (PredictCalled /\ ValidInput(args[1])) =>
        /\ outcome = "returned"
        /\ result.carbonSequestration = LinearModel(ModelCoefficients, args[1])

\* the largest valid input (0.9, 100, 8) gave 85.7197..., unclamped
C3_Witness ==
    /\ PredictCalled
    /\ args[1] = Input(Dec(9, 1), Dec(100, 0), Dec(8, 0))
    /\ outcome = "returned"
    /\ result.carbonSequestration[1] = 85
    /\ result.carbonSequestration[2] = 719769

\* the input of the documented example
ExampleInput == Input(Dec(7, 1), Dec(75, 0), Dec(35, 1))

\* C4 as stated: the prediction for (0.7, 75, 3.5) is 49.55 to 2 decimals.
C4_Original ==
    (PredictCalled /\ args[1] = ExampleInput /\ outcome = "returned") =>
        ToFixed2(result.carbonSequestration) = 4955

\* C4 (amended): the prediction for (0.7, 75, 3.5) is 49.7487..., which
\* is 49.75 when rounded to 2 decimals.
C4_ExampleValue ==
    (PredictCalled /\ args[1] = ExampleInput) =>
        /\ outcome = "returned"
        /\ ToFixed2(result.carbonSequestration) = 4975
        /\ result.carbonSequestration[1] = 49
        /\ result.carbonSequestration[2] = 748735

\* the documented example has been predicted
C4_Witness == PredictCalled /\ args[1] = ExampleInput /\ outcome = "returned"

\* C5: for every valid input the confidence is max(0.7, 0.9^k), k the
\* number of near-boundary conditions that hold (strict comparisons, each
\* feature counted on its own); k = 2 gives 0.81 and k = 3 gives 0.729.
C5_ConfidenceFormula ==
    (PredictCalled /\ ValidInput(args[1])) =>
        LET k == NearCount(args[1])
        IN  /\ outcome = "returned"
            /\ DecEq(result.confidence, ExpectedConfidence(k))
            /\ k = 2 => DecEq(result.confidence, Dec(81, 2))
            /\ k = 3 => DecEq(result.confidence, Dec(729, 3))

\* a valid input with all three features near a boundary gave 0.729
C5_Witness ==
    /\ PredictCalled
    /\ ValidInput(args[1])
    /\ NearCount(args[1]) = 3
    /\ outcome = "returned"
    /\ DecEq(result.confidence, Dec(729, 3))

\* x and y agree on every feature but one, which is away from its
\* boundaries in x and near one in y
MovesToBoundary(x, y) ==
    \/ /\ ~NdviNear(x) /\ NdviNear(y)
       /\ x.canopyCoverPercent = y.canopyCoverPercent
       /\ x.soilCarbonPercent = y.soilCarbonPercent
    \/ /\ ~CanopyNear(x) /\ CanopyNear(y)
       /\ x.ndvi = y.ndvi
       /\ x.soilCarbonPercent = y.soilCarbonPercent
    \/ /\ ~SoilNear(x) /\ SoilNear(y)
       /\ x.ndvi = y.ndvi
       /\ x.canopyCoverPercent = y.canopyCoverPercent

\* C6: when a prediction for a valid input is followed by a prediction for
\* a valid input that differs in one feature only, moved from away from its
\* boundaries to near one, the second confidence is strictly lower than the
\* first, unless the first already is the floor 0.7.
C6_ConfidenceMonotone ==
    [][ ( /\ PredictCalled /\ outcome = "returned"
          /\ PredictCalled' /\ outcome' = "returned"
          /\ MovesToBoundary(args[1], args'[1]) )
        => \/ DecLt(result'.confidence, result.confidence)
           \/ DecEq(result.confidence, Dec(7, 1)) ]_vars

\* a prediction with two features near a boundary and the third in the
\* centre: the second of two moves to a boundary has been made
C6_Witness ==
    /\ PredictCalled
    /\ outcome = "returned"
    /\ NdviNear(args[1]) /\ CanopyNear(args[1]) /\ ~SoilNear(args[1])
    /\ DecEq(result.confidence, Dec(81, 2))

-----------------------------------------------------------------------------
(* Properties of estimateCarbonCredits and calculateCreditValue *)

\* the duration the call runs with
DurationOf(d) == IF d = Undefined THEN Dec(1, 0) ELSE d

\* C7: for area > 0 and duration > 0, estimateCarbonCredits returns
\* annualCredits = s*a, totalCredits = annualCredits*d and
\* totalSequestration = s*a*d, so totalCredits = totalSequestration; with
\* the duration left out, totalCredits = annualCredits.
C7_CreditArithmetic ==
    LET s == args[1]
        a == args[2]
        d == DurationOf(args[3])
    IN  (EstimateCalled /\ DecLt(Dec(0, 0), a) /\ DecLt(Dec(0, 0), d)) =>
            /\ outcome = "returned"
            /\ result.annualCredits = NumOf(DecMul(s, a))
            /\ result.totalCredits = NumOf(DecMul(DecMul(s, a), d))
            /\ result.totalSequestration = NumOf(DecMul(DecMul(s, a), d))
            /\ result.totalCredits = result.totalSequestration
            /\ args[3] = Undefined => result.totalCredits = result.annualCredits

\* estimateCarbonCredits(10, 5, 2) returned 50, 100 and 100
C7_Witness ==
    /\ EstimateCalled
    /\ args = <<Dec(10, 0), Dec(5, 0), Dec(2, 0)>>
    /\ outcome = "returned"
    /\ result.annualCredits = <<50, 0, 0, 0>>
    /\ result.totalCredits = <<100, 0, 0, 0>>
    /\ result.totalSequestration = <<100, 0, 0, 0>>

\* C8: estimateCarbonCredits throws, and returns no estimate, exactly when
\* areaHectares <= 0 or projectDurationYears <= 0.
C8_CreditParameters ==
    EstimateCalled =>
        /\ (outcome = "threw") <=>
              (DecLe(args[2], Dec(0, 0)) \/ DecLe(DurationOf(args[3]), Dec(0, 0)))
        /\ outcome = "threw" => (thrown.name = "Error" /\ result = NoValue)
        /\ outcome = "returned" => thrown = NoValue

\* a call with a positive area and the duration 0 has thrown
C8_Witness ==
    /\ EstimateCalled
    /\ DecLt(Dec(0, 0), args[2])
    /\ args[3] = Dec(0, 0)
    /\ outcome = "threw"
    /\ thrown.prefix = "Project duration must be greater than 0"

\* the price the call runs with
PriceOf(p) == IF p = Undefined THEN Dec(15, 0) ELSE p

\* C9: calculateCreditValue throws exactly when credits < 0 or
\* pricePerCredit <= 0 (0 credits are accepted); otherwise it returns
\* valueUSD = credits * pricePerCredit with the credits and the price it
\* was given, the price being 15 when none is given.
C9_CreditValue ==
    ValueCalled =>
        LET c == args[1]
            p == PriceOf(args[2])
        IN  /\ (outcome = "threw") <=> (DecLt(c, Dec(0, 0)) \/ DecLe(p, Dec(0, 0)))
            /\ outcome = "threw" => result = NoValue
            /\ outcome = "returned" =>
                  /\ result.valueUSD = NumOf(DecMul(c, p))
                  /\ result.credits = NumOf(c)
                  /\ DecEq(result.pricePerCredit, p)
                  /\ args[2] # Undefined => result.pricePerCredit = args[2]

\* calculateCreditValue(100) returned 1500 at the price 15
C9_Witness ==
    /\ ValueCalled
    /\ args = <<Dec(100, 0), Undefined>>
    /\ outcome = "returned"
    /\ result.valueUSD = <<1500, 0, 0, 0>>
    /\ result.pricePerCredit = Dec(15, 0)

-----------------------------------------------------------------------------
(* Properties of batchPredict *)

AllValid(inputs) == \A i \in 1..Len(inputs) : ValidInput(inputs[i])

\* C10: for a batch whose elements are all valid, batchPredict returns a
\* list as long as the batch whose i-th element is what a single
\* predictCarbonSequestration call returns for the i-th input: the same
\* carbonSequestration, confidence and echoed input.
C10_BatchMatchesPredict ==
    (BatchCalled /\ AllValid(args[1])) =>
        /\ outcome = "returned"
        /\ Len(result) = Len(args[1])
        /\ \A i \in 1..Len(args[1]) :
              LET single == predictCarbonSequestration(instance, args[1][i], now)
              IN  /\ single.status = "returned"
                  /\ result[i].carbonSequestration = single.value.carbonSequestration
                  /\ result[i].confidence = single.value.confidence
                  /\ result[i].inputData = args[1][i]

\* a batch of valid elements, not all the same, has been predicted
C10_Witness ==
    /\ BatchCalled
    /\ Len(args[1]) >= 2
    /\ AllValid(args[1])
    /\ args[1][1] # args[1][2]
    /\ outcome = "returned"
    /\ result[1].inputData # result[2].inputData

\* the first element of `inputs`, in index order, that is out of range
FirstInvalid(inputs) ==
    inputs[CHOOSE i \in 1..Len(inputs) :
              /\ ~ValidInput(inputs[i])
              /\ \A j \in 1..(i - 1) : ValidInput(inputs[j])]

\* C11: when an element of the batch is invalid, batchPredict returns
\* nothing (no partial list) and throws the error that a single
\* predictCarbonSequestration call throws for the first invalid element in
\* input order.
C11_BatchFailsAsFirstInvalid ==
    (BatchCalled /\ ~AllValid(args[1])) =>
        /\ outcome = "threw"
        /\ result = NoValue
        /\ thrown = predictCarbonSequestration(instance, FirstInvalid(args[1]), now).error
        /\ { thrown.parts[i] : i \in 1..Len(thrown.parts) }
              = ViolationMessages(FirstInvalid(args[1]))

\* a batch of two invalid elements with different violations has thrown
\* the error of its first element
C11_Witness ==
    /\ BatchCalled
    /\ Len(args[1]) = 2
    /\ ~ValidInput(args[1][1]) /\ ~ValidInput(args[1][2])
    /\ ViolationMessages(args[1][1]) # ViolationMessages(args[1][2])
    /\ outcome = "threw"
    /\ thrown.parts = <<NdviMessage>>

-----------------------------------------------------------------------------
(* Properties of the shared instance *)

\* caller c holds the outcome of a completed call of `method`
HasDone(c, method) ==
    running[c].phase = "done" /\ running[c].call.method = method

\* caller c holds the result of a prediction that returned
HasPrediction(c) ==
    /\ HasDone(c, "predictCarbonSequestration")
    /\ running[c].outcome.status = "returned"

\* C12: two predictCarbonSequestration calls with the same input, made at
\* any two points of any sequence of service calls, return the same
\* carbonSequestration and the same confidence; their timestamps may differ.
C12_PredictRepeatable ==
    \A c1, c2 \in Callers :
        ( /\ HasPrediction(c1) /\ HasPrediction(c2)
          /\ running[c1].call.args = running[c2].call.args )
        => /\ running[c1].outcome.value.carbonSequestration
                = running[c2].outcome.value.carbonSequestration
           /\ running[c1].outcome.value.confidence
                = running[c2].outcome.value.confidence

\* two callers hold predictions for the same input, made at different times
C12_Witness ==
    \E c1, c2 \in Callers :
        /\ HasPrediction(c1) /\ HasPrediction(c2)
        /\ running[c1].call.args = running[c2].call.args
        /\ running[c1].outcome.value.timestamp # running[c2].outcome.value.timestamp

\* C13: the coefficient table and the version are set when the instance is
\* created and never change: whatever calls have been made since, returned
\* or thrown, they have their initial values, and a later getInstance
\* returns the instance already made.
C13_CoefficientsImmutable ==
    /\ [](instance # NoInstance =>
            /\ instance.modelCoefficients = ModelCoefficients
            /\ instance.modelVersion = "1.0")
    /\ [][instance # NoInstance => instance' = instance]_vars

\* a prediction has thrown and the instance still is the one constructed
C13_Witness ==
    /\ PredictCalled
    /\ outcome = "threw"
    /\ instance = MLServiceNew

\* C19: however the calls of concurrent callers interleave on the shared
\* instance, every completed call has the outcome it has when it is the
\* only call ever made, on a freshly constructed service at the same time.
C19_CallsIndependent ==
    \A c \in Callers :
        running[c].phase = "done" =>
            running[c].outcome = Execute(MLServiceNew, running[c].call, running[c].at)

\* one caller holds a prediction while another, after it, holds the
\* outcome of a later service call
C19_Witness ==
    \E c1, c2 \in Callers :
        /\ c1 # c2
        /\ HasPrediction(c1)
        /\ HasDone(c2, "batchPredict")
        /\ running[c1].at < running[c2].at

\* the snapshot getModelInfo returns
ModelInfoOf(c) == running[c].outcome.value

\* C20: getModelInfo changes no state of the service; it returns the same
\* snapshot at every point; the coefficients in it are the ones the
\* predictions are computed with; and its feature-importance list is
\* NDVI, SoilCarbonPercent, CanopyCoverPercent, in descending importance.
C20_ModelInfoPure ==
    /\ [](\A c \in Callers : HasDone(c, "getModelInfo") =>
            /\ running[c].outcome.status = "returned"
            /\ \A d \in Callers :
                  HasDone(d, "getModelInfo") => ModelInfoOf(d) = ModelInfoOf(c)
            /\ ModelInfoOf(c).coefficients = instance.modelCoefficients
            /\ \A d \in Callers :
                  HasPrediction(d) =>
                      running[d].outcome.value.carbonSequestration
                        = LinearModel(ModelInfoOf(c).coefficients, running[d].call.args[1])
            /\ LET f == ModelInfoOf(c).featureImportance
               IN  /\ <<f[1].feature, f[2].feature, f[3].feature>>
                        = <<"NDVI", "SoilCarbonPercent", "CanopyCoverPercent">>
                   /\ NumLt(f[2].importance, f[1].importance)
                   /\ NumLt(f[3].importance, f[2].importance))
    /\ [][\A c \in Callers :
            ( /\ running[c].phase = "calling"
              /\ running[c].call.method = "getModelInfo"
              /\ running'[c].phase = "done" )
            => /\ instance' = instance
               /\ \A d \in Callers \ {c} : running'[d] = running[d]]_vars

\* two callers hold model-info snapshots taken at different times
C20_Witness ==
    \E c1, c2 \in Callers :
        /\ HasDone(c1, "getModelInfo")
        /\ HasDone(c2, "getModelInfo")
        /\ running[c1].at # running[c2].at

-----------------------------------------------------------------------------
(* Properties of the carbon routes *)

\* the request last handled went to this route
RouteIs(route) == request # NoValue /\ request.route = route

\* the request carries no Authorization header
Unauthenticated(req) == req.authorization = Undefined

\* the request carries the token of a farmer
AsFarmer(req) ==
    req.authorization \in { Bearer("token-asha"), Bearer("token-ravi") }

\* the request carries a token that was issued to a user
AsUser(req) == AsFarmer(req) \/ req.authorization = Bearer("token-admin")

\* the farmer a token was issued to
OwnerOf(req) ==
    IF req.authorization = Bearer("token-asha") THEN "farmer-1"
    ELSE IF req.authorization = Bearer("token-ravi") THEN "farmer-2"
    ELSE "nobody"

\* the step handles a request (the other steps of the server change the
\* state of the database)
HandlesRequest == database' = database

\* the predictions array of a batch request has more than 100 elements
Oversize(req) ==
    /\ IsArray(req.body.predictions)
    /\ Len(req.body.predictions.array) > 100

\* C14, as stated: every batch request with more than 100 elements is
\* answered 400 and no prediction is computed for it.
C14_Original ==
    (RouteIs("batch-predict") /\ Oversize(request)) =>
        /\ response.status = 400
        /\ coreCalls = <<>>

\* C14: a batch request with more than 100 elements is answered 400 when it
\* carries the token of a farmer, 401 when it carries no token and 403 when
\* its token is not a farmer's; in every case no prediction is computed for
\* it and nothing is stored for it.
C14_OversizeBatchRejected ==
    /\ []((RouteIs("batch-predict") /\ Oversize(request)) =>
            /\ coreCalls = <<>>
            /\ response.body.success = FALSE
            /\ response.status = IF Unauthenticated(request) THEN 401
                                 ELSE IF AsFarmer(request) THEN 400
                                 ELSE 403)
    /\ [][(HandlesRequest /\ request'.route = "batch-predict" /\ Oversize(request'))
            => store' = store]_vars

\* a farmer who has a prediction stored sends 101 elements and is answered 400
C14_Witness ==
    /\ RouteIs("batch-predict")
    /\ Oversize(request)
    /\ AsFarmer(request)
    /\ response.status = 400
    /\ coreCalls = <<>>
    /\ \E i \in 1..Len(store) : store[i].farmerId = OwnerOf(request)

\* the validators of /predict accept the body
RouteAccepts(body) ==
    /\ body.ndvi # Undefined
    /\ DecLe(Dec(1, 1), body.ndvi) /\ DecLe(body.ndvi, Dec(9, 1))
    /\ body.canopyCoverPercent # Undefined
    /\ DecLe(Dec(0, 0), body.canopyCoverPercent)
    /\ DecLe(body.canopyCoverPercent, Dec(100, 0))
    /\ body.soilCarbonPercent # Undefined
    /\ DecLe(Dec(5, 1), body.soilCarbonPercent)
    /\ DecLe(body.soilCarbonPercent, Dec(8, 0))
    /\ body.areaHectares # Undefined => DecLt(Dec(0, 0), body.areaHectares)
    /\ body.projectDurationYears # Undefined =>
          \E k \in 1..body.projectDurationYears.m :
             DecEq(body.projectDurationYears, Dec(k, 0))

\* C15, as stated: every /predict request without a token is answered 401
\* and every one whose token is not a farmer's is answered 403, and no
\* prediction is computed for either.
C15_Original ==
    (RouteIs("predict") /\ ~AsFarmer(request)) =>
        /\ response.status = IF Unauthenticated(request) THEN 401 ELSE 403
        /\ coreCalls = <<>>

\* C15: a /predict request whose body the route validators accept is
\* answered 401 when it carries no token and 403 when its token does not
\* resolve to a farmer; a body the validators reject is answered 400 whatever
\* the token; in all these cases no prediction is computed or stored.
C15_PredictRequiresFarmer ==
    /\ []((RouteIs("predict") /\ ~AsFarmer(request)) =>
            /\ coreCalls = <<>>
            /\ response.body.success = FALSE
            /\ response.status = IF ~RouteAccepts(request.body) THEN 400
                                 ELSE IF Unauthenticated(request) THEN 401
                                 ELSE 403)
    /\ []((RouteIs("predict") /\ ~RouteAccepts(request.body)) =>
            /\ coreCalls = <<>>
            /\ response.status = 400)
    /\ [][(HandlesRequest /\ request'.route = "predict"
             /\ (~AsFarmer(request') \/ ~RouteAccepts(request'.body)))
            => store' = store]_vars

\* a well-formed /predict request without a token is answered 401 while the
\* store holds predictions
C15_Witness ==
    /\ RouteIs("predict")
    /\ Unauthenticated(request)
    /\ RouteAccepts(request.body)
    /\ response.status = 401
    /\ coreCalls = <<>>
    /\ store # <<>>

\* C16: on each of the five carbon routes a request without the token of a
\* user never receives a success response.
C16_AllRoutesRequireAuth ==
    (request # NoValue /\ ~AsUser(request)) => response.body.success = FALSE

\* the error the service threw on its last call is an invalid-input error of
\* validateInput
ThrewInvalidInput ==
    outcome = "threw" /\ op \in {"predictCarbonSequestration", "batchPredict"}

\* the error the service threw on its last call is an invalid-parameter error
ThrewInvalidParameter ==
    outcome = "threw" /\ op \in {"estimateCarbonCredits", "calculateCreditValue"}

DocsOf(farmerId) == { i \in 1..Len(store) : store[i].farmerId = farmerId }

\* C18: GET /history for a farmer returns only predictions stored by
\* requests authenticated as that farmer: every document is stored under the
\* farmer whose token its request carried and is never changed afterwards,
\* and every entry of a history comes from a document of the caller.
C18_HistoryIsolated ==
    /\ []((RouteIs("history") /\ response.status = 200) =>
            LET entries == response.body.data.predictions
            IN  /\ AsFarmer(request)
                /\ response.body.data.farmerId = OwnerOf(request)
                /\ Len(entries) <= Cardinality(DocsOf(OwnerOf(request)))
                /\ \A k \in 1..Len(entries) :
                      \E i \in DocsOf(OwnerOf(request)) :
                         /\ entries[k].timestamp = store[i].timestamp
                         /\ entries[k].input = store[i].input
                         /\ entries[k].result = store[i].prediction)
    /\ [][/\ Len(store') >= Len(store)
          /\ SubSeq(store', 1, Len(store)) = store
          /\ \A i \in (Len(store) + 1)..Len(store') :
                /\ AsFarmer(request')
                /\ request'.route \in {"predict", "batch-predict"}
                /\ store'[i].farmerId = OwnerOf(request')]_vars

\* a farmer reads a history with an entry while the store also holds a
\* document of the other farmer
C18_Witness ==
    /\ RouteIs("history")
    /\ response.status = 200
    /\ Len(response.body.data.predictions) > 0
    /\ \E i \in 1..Len(store) : store[i].farmerId # OwnerOf(request)

\* C21: /predict applies its checks in the order body validation (400),
\* token presence (401), farmer role (403), and the first check that fails
\* decides the response, with nothing computed; a request that passes all
\* three is computed, starting with predictCarbonSequestration.
C21_PredictCheckOrder ==
    RouteIs("predict") =>
        IF ~RouteAccepts(request.body)
        THEN /\ response.status = 400
             /\ "errors" \in DOMAIN response.body
             /\ Len(response.body.errors) > 0
             /\ coreCalls = <<>>
        ELSE IF Unauthenticated(request)
        THEN /\ response.status = 401
             /\ response.body.message = "Authentication token required"
             /\ coreCalls = <<>>
        ELSE IF ~AsFarmer(request)
        THEN /\ response.status = 403
             /\ response.body.message = "Farmer access required"
             /\ coreCalls = <<>>
        ELSE /\ coreCalls # <<>>
             /\ coreCalls[1] = "predictCarbonSequestration"
             /\ "prediction" \in DOMAIN response.body

\* a request that fails the first and the third check (a rejected body, the
\* token of an admin) is answered by the first, 400
C21_Witness ==
    /\ RouteIs("predict")
    /\ ~RouteAccepts(request.body)
    /\ request.authorization = Bearer("token-admin")
    /\ response.status = 400

\* the input a /predict body carries
InputOf(body) ==
    Input(body.ndvi, body.canopyCoverPercent, body.soilCarbonPercent)

\* C22: the service predicts a strictly positive carbonSequestration for
\* every valid input, and every /predict request of a farmer that the
\* validators accept is answered with success and a credits object that is
\* not null, after estimateCarbonCredits and calculateCreditValue have both
\* returned.
C22_ValidatedPredictSucceeds ==
    (RouteIs("predict") /\ AsFarmer(request) /\ RouteAccepts(request.body)) =>
        /\ \A x \in Inputs :
              ValidInput(x) =>
                  NumLt(NumOf(Dec(0, 0)), calculateCarbonSequestration(instance, x))
        /\ response.status = 200
        /\ response.body.success = TRUE
        /\ NumLt(NumOf(Dec(0, 0)), response.body.prediction.carbonSequestration)
        /\ response.body.credits # Null
        /\ NumLt(NumOf(Dec(0, 0)), response.body.credits.totalCredits)
        /\ NumLt(NumOf(Dec(0, 0)), response.body.credits.valueUSD)
        /\ coreCalls = <<"predictCarbonSequestration", "estimateCarbonCredits",
                         "calculateCreditValue">>

\* a farmer is answered for the valid input with the lowest prediction
\* (every feature at the lower end of its range) and a given area and duration
C22_Witness ==
    /\ RouteIs("predict")
    /\ AsFarmer(request)
    /\ InputOf(request.body) = Input(Dec(1, 1), Dec(0, 0), Dec(5, 1))
    /\ request.body.areaHectares = Dec(5, 0)
    /\ response.status = 200
    /\ response.body.credits # Null

-----------------------------------------------------------------------------
(* The values of the confidence *)

\* the four products 0.9^k, k = 0..3
ConfidenceLevels == << Dec(1, 0), Dec(9, 1), Dec(81, 2), Dec(729, 3) >>

IsConfidenceLevel(c) == \E k \in 1..Len(ConfidenceLevels) : DecEq(c, ConfidenceLevels[k])

\* C23: the confidence of every prediction that predict or batchPredict
\* returns is one of 1.0, 0.9, 0.81 and 0.729; it is above the floor 0.7 and
\* never the floor itself.
C23_FourConfidenceValues ==
    /\ (PredictCalled /\ outcome = "returned") =>
          /\ IsConfidenceLevel(result.confidence)
          /\ DecLt(Dec(7, 1), result.confidence)
    /\ (BatchCalled /\ outcome = "returned") =>
          \A i \in 1..Len(result) :
             /\ IsConfidenceLevel(result[i].confidence)
             /\ ~DecEq(result[i].confidence, Dec(7, 1))

\* the lowest of the four values has been returned, for an input at the
\* upper end of all three ranges
C23_Witness ==
    /\ PredictCalled
    /\ outcome = "returned"
    /\ args[1] = Input(Dec(9, 1), Dec(100, 0), Dec(8, 0))
    /\ DecEq(result.confidence, ConfidenceLevels[4])

-----------------------------------------------------------------------------
(* Properties of the prediction store *)

\* the step handles a request to the route
Handles(route) == HandlesRequest /\ request' # NoValue /\ request'.route = route

\* the body of a batch request is an array of 1 to 100 elements
BatchAccepted(body) ==
    /\ IsArray(body.predictions)
    /\ Len(body.predictions.array) \in 1..100

\* every element of the array is an input inside the ranges
BatchValid(body) ==
    \A i \in 1..Len(body.predictions.array) :
       /\ body.predictions.array[i] # Null
       /\ ValidInput(body.predictions.array[i])

\* C24: when the insert raises during /predict or /batch-predict, the
\* handler still answers with success and the prediction(s) the service
\* computed, and the store is left as it was.
C24_InsertFailureTolerated ==
    [][/\ (Handles("predict") /\ database = "failing"
             /\ AsFarmer(request') /\ RouteAccepts(request'.body)) =>
            /\ response'.status = 200
            /\ response'.body.success = TRUE
            /\ response'.body.prediction =
                  predictCarbonSequestration(instance, InputOf(request'.body), now).value
            /\ store' = store
       /\ (Handles("batch-predict") /\ database = "failing"
             /\ AsFarmer(request') /\ BatchAccepted(request'.body)
             /\ BatchValid(request'.body)) =>
            /\ response'.status = 200
            /\ response'.body.success = TRUE
            /\ response'.body.count = Len(request'.body.predictions.array)
            /\ response'.body.predictions =
                  batchPredict(instance, request'.body.predictions.array, now).value
            /\ store' = store]_vars

\* a farmer with a stored prediction is answered for a batch while the
\* database is failing
C24_Witness ==
    /\ database = "failing"
    /\ RouteIs("batch-predict")
    /\ AsFarmer(request)
    /\ response.status = 200
    /\ response.body.count = 2
    /\ Len(store) = 1

\* the documents a step has appended to the store
Appended == SubSeq(store', Len(store) + 1, Len(store'))

\* the store has only grown at its end
OnlyAppended ==
    /\ Len(store') >= Len(store)
    /\ SubSeq(store', 1, Len(store)) = store

\* C25, as stated: a /predict or /batch-predict request answered 400, 401,
\* 403 or 500 stores nothing, and a successful /predict stores exactly one
\* record and a successful /batch-predict exactly one record per element.
C25_Original ==
    [][/\ ((Handles("predict") \/ Handles("batch-predict"))
             /\ response'.status # 200) => store' = store
       /\ (Handles("predict") /\ response'.status = 200) =>
             OnlyAppended /\ Len(Appended) = 1
       /\ (Handles("batch-predict") /\ response'.status = 200) =>
             OnlyAppended /\ Len(Appended) = response'.body.count]_vars

\* C25: the store changes only in a /predict or /batch-predict request that
\* is answered with success; a request answered 400, 401, 403 or 500 stores
\* nothing, and so does a batch with an invalid element.  A successful
\* /predict stores exactly one record and a successful /batch-predict
\* exactly one record per element, in the order of the elements, each under
\* the calling farmer, when the database is connected; it stores nothing
\* when the database is disconnected or the insert raises.
C25_StoreChangesOnSuccess ==
    [][/\ store' # store =>
            /\ Handles("predict") \/ Handles("batch-predict")
            /\ response'.status = 200
            /\ database = "connected"
       /\ ((Handles("predict") \/ Handles("batch-predict"))
             /\ response'.status \in {400, 401, 403, 500}) => store' = store
       /\ (Handles("batch-predict") /\ AsFarmer(request')
             /\ BatchAccepted(request'.body) /\ ~BatchValid(request'.body)) =>
            /\ response'.status # 200
            /\ store' = store
       /\ (Handles("predict") /\ response'.status = 200) =>
            IF database = "connected"
            THEN /\ OnlyAppended
                 /\ Len(Appended) = 1
                 /\ Appended[1].farmerId = OwnerOf(request')
                 /\ Appended[1].farmerId = response'.body.farmer.id
                 /\ Appended[1].prediction = response'.body.prediction
                 /\ Appended[1].credits = response'.body.credits
            ELSE store' = store
       /\ (Handles("batch-predict") /\ response'.status = 200) =>
            IF database = "connected"
            THEN /\ OnlyAppended
                 /\ Len(Appended) = Len(request'.body.predictions.array)
                 /\ \A i \in 1..Len(Appended) :
                       /\ Appended[i].farmerId = OwnerOf(request')
                       /\ Appended[i].input = request'.body.predictions.array[i]
                       /\ Appended[i].prediction = response'.body.predictions[i]
            ELSE store' = store]_vars

\* a batch of two elements has been stored, one document per element, under
\* the farmer who sent it
C25_Witness ==
    /\ RouteIs("batch-predict")
    /\ response.status = 200
    /\ response.body.count = 2
    /\ Len(store) = 2
    /\ \A i \in 1..2 :
          /\ store[i].farmerId = OwnerOf(request)
          /\ store[i].prediction = response.body.predictions[i]

-----------------------------------------------------------------------------
(* Properties of the history *)

\* the documents of the caller, in the order they were stored
CallerDocs == SelectSeq(store, LAMBDA doc : doc.farmerId = OwnerOf(request))

\* the sum of a sequence of numbers
RECURSIVE SumOf(_)
SumOf(xs) ==
    IF xs = <<>> THEN NumOf(Dec(0, 0))
    ELSE IF Len(xs) = 1 THEN xs[1]
    ELSE LET half == Len(xs) \div 2
         IN  NumAdd(SumOf(SubSeq(xs, 1, half)), SumOf(SubSeq(xs, half + 1, Len(xs))))

\* what a stored document contributes to the totals
CreditsIn(doc) ==
    IF "credits" \in DOMAIN doc THEN doc.credits.totalCredits ELSE NumOf(Dec(0, 0))
ValueIn(doc) ==
    IF "credits" \in DOMAIN doc THEN doc.credits.valueUSD ELSE NumOf(Dec(0, 0))

\* C26: GET /history returns the caller's most recent records, latest first
\* and 50 at most, and its totalCredits and totalValueUSD are the sums of
\* credits.totalCredits and credits.valueUSD over the records it returns,
\* where a record stored by /batch-predict, which carries no credits, counts
\* as 0.
C26_HistoryTotals ==
    (RouteIs("history") /\ response.status = 200) =>
        LET data == response.body.data
            entries == data.predictions
            mine == CallerDocs
            returned == [ k \in 1..Len(entries) |-> mine[Len(mine) + 1 - k] ]
        IN  /\ Len(entries) <= 50
            /\ Len(entries) <= Len(mine)
            /\ database = "connected" =>
                  Len(entries) = IF Len(mine) < 50 THEN Len(mine) ELSE 50
            /\ \A k \in 1..Len(entries) :
                  /\ entries[k].timestamp = returned[k].timestamp
                  /\ entries[k].input = returned[k].input
                  /\ entries[k].result = returned[k].prediction
                  /\ "credits" \in DOMAIN returned[k] =>
                        /\ entries[k].credits = returned[k].credits.totalCredits
                        /\ entries[k].valueUSD = returned[k].credits.valueUSD
                  /\ "credits" \notin DOMAIN returned[k] =>
                        /\ entries[k].credits = Undefined
                        /\ entries[k].valueUSD = Undefined
            /\ data.totalCredits =
                  SumOf([ k \in 1..Len(entries) |-> CreditsIn(returned[k]) ])
            /\ data.totalValueUSD =
                  SumOf([ k \in 1..Len(entries) |-> ValueIn(returned[k]) ])

\* a farmer with more than 50 records, with and without credits, reads a
\* history of 50, whose totals leave out the credits of the older records
C26_Witness ==
    /\ RouteIs("history")
    /\ response.status = 200
    /\ Len(CallerDocs) > 50
    /\ Len(response.body.data.predictions) = 50
    /\ \E i \in 1..Len(CallerDocs) : "credits" \notin DOMAIN CallerDocs[i]
    /\ NumLt(response.body.data.totalCredits,
             SumOf([ i \in 1..Len(CallerDocs) |-> CreditsIn(CallerDocs[i]) ]))

-----------------------------------------------------------------------------
(* Properties of the three validators *)

\* the messages the client and the route give for the three ranges
RangeMessages ==
    { "NDVI must be between 0.1 and 0.9",
      "Canopy cover must be between 0 and 100%",
      "Soil carbon must be between 0.5 and 8%" }

NoRangeError(errors) == \A i \in 1..Len(errors) : errors[i] \notin RangeMessages

\* the three validators have judged the input
AllJudged ==
    /\ DOMAIN result = DOMAIN NotJudged
    /\ \A by \in DOMAIN NotJudged : result[by] # NoValue

\* the input lies inside the three ranges, and its area and its duration are
\* positive or absent
InsideRanges(input) ==
    /\ DecLe(Dec(1, 1), input.ndvi) /\ DecLe(input.ndvi, Dec(9, 1))
    /\ DecLe(Dec(0, 0), input.canopyCoverPercent)
    /\ DecLe(input.canopyCoverPercent, Dec(100, 0))
    /\ DecLe(Dec(5, 1), input.soilCarbonPercent)
    /\ DecLe(input.soilCarbonPercent, Dec(8, 0))
    /\ input.areaHectares = Undefined \/ DecLt(Dec(0, 0), input.areaHectares)
    /\ \/ input.projectDurationYears = Undefined
       \/ DecLt(Dec(0, 0), input.projectDurationYears)

\* C27: the three range validators agree on every input: the client's
\* validateCarbonInput gives no range error exactly when the validators of
\* the route give none, and exactly when validateInput of the service does not
\* raise; and inside all ranges, with a positive or absent area and duration,
\* validateCarbonInput gives the empty list
C27_ValidatorsAgree ==
    AllJudged =>
        /\ NoRangeError(result.client.array) <=> NoRangeError(result.route.array)
        /\ NoRangeError(result.route.array) <=> result.service.status = "returned"
        /\ InsideRanges(args[1]) => result.client.array = <<>>

\* an input without its ndvi has been judged by the three validators
C27_MissingFieldJudged ==
    /\ AllJudged
    /\ args[1].ndvi = Undefined
    /\ args[1].canopyCoverPercent = Dec(75, 0)
    /\ args[1].soilCarbonPercent = Dec(35, 1)


-----------------------------------------------------------------------------
(* Properties of the login by one-time code *)

\* verify-otp would accept this code for this email in the current state
Verifies(email, otp) ==
    LET next == verifyOtp(email, otp, otps, now)
    IN  "pc" \in DOMAIN next /\ next.pc = "deleteOne"

\* C28: a login code is used once: after verify-otp has accepted a code for
\* an email, and until send-otp writes a new code for it, the otps collection
\* holds no record for the email and a verify-otp request with the same email
\* and code is answered 400
C28_OtpSingleUse ==
    \A email \in Emails :
        spent[email] # "" =>
            /\ otpsFindOne(otps, email) = Null
            /\ verifyOtp(email, spent[email], otps, now).status = 400

\* the code that logged a farmer in has been presented again, and refused
C28_Witness ==
    /\ spent["asha@example.com"] = "123456"
    /\ \A c \in Invocations : invocations[c] = NotInvoked
    /\ \E i \in 1..Len(farmers) : farmers[i].email = "asha@example.com"
    /\ request = [route |-> "verify-otp",
                  body |-> [email |-> "asha@example.com", otp |-> "123456"]]
    /\ response = Failure(400, "OTP not found or expired")

\* C29: there is at most one login record per email; it is the document the
\* last send-otp for the email wrote, with its code and its expiry; and
\* verify-otp accepts no other code than the one written last
C29_LatestCodeOnly ==
    \A email \in Emails :
        /\ Cardinality(otpsMatching(otps, email)) <= 1
        /\ otpsFindOne(otps, email) \in { Null, issued[email] }
        /\ \A otp \in OtpCodes :
              Verifies(email, otp) =>
                  issued[email] # NoValue /\ issued[email].otp = otp

\* the record of one email was replaced where it stood by a later send-otp,
\* next to the record of the other email, and its new code verifies
C29_Witness ==
    /\ Len(otps) = 2
    /\ otps[1].email = "asha@example.com"
    /\ otps[1].createdAt = OtpLifetimeMs
    /\ otps[2].email = "ravi@example.com"
    /\ otps[2].createdAt = 0
    /\ now = OtpLifetimeMs
    /\ Verifies("asha@example.com", otps[1].otp)

\* C30: the farmers collection never holds two farmers with the same email
C30_OneFarmerPerEmail ==
    \A i, j \in 1..Len(farmers) :
        farmers[i].email = farmers[j].email => i = j

====
